---- MODULE Spec2Model ----
(***************************************************************************)
(* Model of the hotplug coordinator of the cml daemon (daemon/hotplug.c):  *)
(* the USB and net mapping tables, the uevent handler, the token and net   *)
(* debounce timers and the interface rename/move path.                     *)
(*                                                                         *)
(* Strings are sequences of tokens (<<"cml", "eth", "0">> is "cmleth0"),   *)
(* so that strlen, strcmp, strncmp, strstr and the trailing-newline strip  *)
(* are computed, not assumed.                                              *)
(***************************************************************************)
EXTENDS Integers, Sequences, FiniteSets, Bags, TLC

VARIABLES
    hotplug_container_dev_mapping_list,    \* hotplug.c:71
    hotplug_container_netdev_mapping_list, \* hotplug.c:74
    retries,                               \* hotplug.c:549 (static, one per process)
    cmld_wlan_idx,                         \* hotplug.c:235 (static)
    cmld_eth_idx,                          \* hotplug.c:236 (static)
    token_timers,                          \* event-loop timers running hotplug_token_timer_cb
                                           \* (a bag of closures)
    netif_timers,                          \* event-loop timers running
                                           \* hotplug_sysfs_netif_timer_cb (a bag of events)
    netif_phys,                            \* cmld's list of known physical interfaces
    devnodes,                              \* environment: device nodes that exist under /dev
    wireless,                              \* environment: interfaces with /sys/class/net/<if>/wireless
    timer_tick,                            \* history: parity of the timer expirations the
                                           \* event loop has delivered
    ntoken_timers,                         \* history: token timers scheduled so far
    nnetif_timers,                         \* history: net timers scheduled so far
    last,                                  \* history: the last handler run, what it called,
                                           \* logged and returned
    make_env,                              \* Makefile: the build switches (variables of make)
    make_pc,                               \* Makefile: the statement make reads next
    SRC_CMODULES,                          \* Makefile: the compartment modules, in link order
    c_state,                               \* engine: the compartment's state
    start_phase,                           \* engine: the forward phase in progress (0: none)
    next_module,                           \* engine: the module whose hook is called next
    executed,                              \* engine: the modules that executed a forward hook
                                           \* in the current attempt
    cleanup_calls,                         \* engine: the cleanup hooks called since the
                                           \* attempt began, in the order of the calls
    teardown,                              \* engine: the step of teardown in progress
    deferred_stop,                         \* engine: a stop was requested while a start was
                                           \* pending
    queued_stop,                           \* engine: a stop was requested while freezing or
                                           \* frozen
    child,                                 \* engine: the compartment's child process
    child_ready,                           \* engine: the child has signalled readiness
    failed_module,                        \* the module whose hook failed in the current attempt, 0 if none
    nstarts,                               \* history: the attempts begun so far
    loop_running,                          \* event loop: the compartment whose hook the loop
                                           \* is running ("idle": the loop is between callbacks)
    lc_phase,                              \* per compartment: the forward phase in progress
    lc_module,                             \* per compartment: the module whose hook is next
    lc_hook,                               \* per compartment: the hook invocation in progress
    lc_calls,                              \* history, per compartment: the hooks called
    notify_queue,                          \* engine: the observer notifications of transitions
                                           \* made and not yet delivered
    observed,                              \* history: the last notification delivered and the
                                           \* state the observer read
    token_file,                            \* ssl_util.c: the file ssl_read_pkcs12_token is given
    passphrase,                            \* ssl_util.c: the passphrase it is given
    p12_out,                               \* ssl_util.c: what the call returned and stored
                                           \* through pkey and cert
    ifi_names,                             \* history: the names hotplug_rename_ifi_new has
                                           \* returned (a bag)
    sysfs_usb_devices,                     \* environment: the entries of /sys/bus/usb/devices
    props_usbdev,                          \* the usbdev hotplug_usbdev_set_sysfs_props is
                                           \* called with
    props_out,                             \* what the call returned, and the usbdev after it
    uevent_uev,                            \* hotplug.c: the handler registered for kernel
                                           \* uevents ("NULL", "handler", or "freed": the
                                           \* pointer to a handler that was freed)
    daemon_aborted,                        \* the process was aborted by the allocator
    ssl_args,                              \* ssl_util.c: the arguments of one call
    ssl_out,                               \* ssl_util.c: what the call returned and wrote
    reg_before                             \* history: the last registration (container, key)
                                           \* and the two tables before it, until the next
                                           \* unregistration

hotplug_vars ==
    <<hotplug_container_dev_mapping_list, hotplug_container_netdev_mapping_list,
      retries, cmld_wlan_idx, cmld_eth_idx, token_timers, netif_timers,
      netif_phys, devnodes, wireless, timer_tick, ntoken_timers, nnetif_timers,
      last>>

build_vars == <<make_env, make_pc, SRC_CMODULES>>

engine_vars ==
    <<c_state, start_phase, next_module, executed, cleanup_calls, teardown,
      deferred_stop, queued_stop, child, child_ready, failed_module, nstarts>>

loop_vars == <<loop_running, lc_phase, lc_module, lc_hook, lc_calls>>

observer_vars == <<notify_queue, observed>>

pkcs12_vars == <<token_file, passphrase, p12_out>>

history_vars == <<ifi_names, reg_before>>
sysfs_vars == <<sysfs_usb_devices, props_usbdev, props_out>>
uev_vars == <<uevent_uev, daemon_aborted>>
ssl_vars == <<ssl_args, ssl_out>>

vars == <<hotplug_vars, build_vars, engine_vars, loop_vars, observer_vars, pkcs12_vars, history_vars, sysfs_vars, uev_vars, ssl_vars>>

----------------------------------------------------------------------------
(* Bounds of the model *)

\* longest USB mapping list (the model registers no more)
MaxMappings == 2
\* longest net mapping list
MaxNetMappings == 1
\* longest net mapping list when only the registries are exercised (RegSpec)
MaxNetRegistrations == 2
\* token timers scheduled in one behaviour
MaxTokenTimers == 2
\* net timers scheduled in one behaviour
MaxNetifTimers == 1
\* modules in the registry of the lifecycle engine
MaxModules == 3
\* entries of /sys/bus/usb/devices
MaxSysfsDevices == 2
\* the longest plaintext and the largest output buffer of ssl_aes_ecb_encrypt
MaxInLen == 33
MaxOutLen == 48
\* the most bytes after the two header ints of a buffer given to ssl_unwrap_key
MaxPayload == 64
\* the longest key given to ssl_wrap_key
MaxPlainKeyLen == 33
\* start attempts in one behaviour
MaxStarts == 2

(* Program constants *)

\* static int retries = 10;
TOKEN_RETRIES == 10

----------------------------------------------------------------------------
(* Input domains *)

Containers == {"c0", "c1"}

HOTPLUG_USBDEV_TYPE_GENERIC == "GENERIC"
HOTPLUG_USBDEV_TYPE_TOKEN == "TOKEN"
UsbdevTypes == {HOTPLUG_USBDEV_TYPE_GENERIC, HOTPLUG_USBDEV_TYPE_TOKEN}

\* major and minor of a usbdev that is bound to no device node
UNSET == -1

\* the file /sys/<devpath>/serial: whether it exists, and what file_read_new
\* reads from it
NoSerialFile == [exists |-> FALSE, content |-> <<>>]
SysfsSerials ==
    { NoSerialFile } \cup
    { [exists |-> TRUE, content |-> c] : c \in {<<>>, <<"0001", "\n">>, <<"0002">>, <<"\n">>} }

----------------------------------------------------------------------------
(* String helpers (libc) *)

strlen(s) == Len(s)

\* the first n tokens of s (all of s when it is shorter)
str_take(s, n) == SubSeq(s, 1, IF n < Len(s) THEN n ELSE Len(s))

\* strncmp(a, b, n) == 0, n counted in tokens
strn_equal(a, b, n) == str_take(a, n) = str_take(b, n)

\* strcmp(a, b) = 0
str_equal(a, b) == a = b

----------------------------------------------------------------------------
(* USB devices and mappings *)

\* hotplug_usbdev_new
hotplug_usbdev_new(type, id_vendor, id_product, i_serial, assign) ==
    [type |-> type, id_vendor |-> id_vendor, id_product |-> id_product,
     i_serial |-> i_serial, assign |-> assign, major |-> UNSET, minor |-> UNSET]

\* mem_new0 leaves mapping->assign false; only mapping->usbdev->assign is copied
hotplug_container_dev_mapping_new(container, usbdev) ==
    [container |-> container,
     usbdev |-> [i_serial |-> usbdev.i_serial,
                 id_vendor |-> usbdev.id_vendor,
                 id_product |-> usbdev.id_product,
                 major |-> usbdev.major,
                 minor |-> usbdev.minor,
                 assign |-> usbdev.assign,
                 type |-> usbdev.type],
     assign |-> FALSE]

\* the usbdevs a caller passes to register/unregister: the device of serial
\* "0001" as token or as generic and assigned, and the same model of device with
\* serial "0002" as generic and shared
TokenUsbdevs ==
    { hotplug_usbdev_new(HOTPLUG_USBDEV_TYPE_TOKEN, 4176, 1031, <<"0001">>, TRUE) }
Usbdevs ==
    { hotplug_usbdev_new(HOTPLUG_USBDEV_TYPE_GENERIC, 4176, 1031, <<"0001">>, TRUE),
      hotplug_usbdev_new(HOTPLUG_USBDEV_TYPE_GENERIC, 4176, 1031, <<"0002">>, FALSE) }
    \cup TokenUsbdevs

----------------------------------------------------------------------------
(* Uevents (common/uevent.h accessors) *)

UEVENT_ACTION_ADD == "add"
UEVENT_ACTION_REMOVE == "remove"
UEVENT_ACTION_CHANGE == "change"

uevent(action, subsystem, devtype, devpath, devname, interface, major, minor, vendor, product) ==
    [action |-> action, subsystem |-> subsystem, devtype |-> devtype,
     devpath |-> devpath, devname |-> devname, interface |-> interface,
     major |-> major, minor |-> minor, usb_vendor |-> vendor, usb_product |-> product]

\* the uevents of the registered device at device node 189:3
UsbDeviceUevent(action) ==
    uevent(action, <<"usb">>, <<"usb_device">>, <<"/devices/pci0/usb1/1-2">>,
           <<"bus/usb/001/004">>, <<>>, 189, 3, 4176, 1031)

\* uevents of USB devices: add, remove and change of the registered device,
\* add of a device of another vendor or product, removal of another device
\* node, add of a USB interface, and the removal of a USB device whose uevent
\* carries no MAJOR and MINOR
UsbUevents ==
    { UsbDeviceUevent(a) :
        a \in {UEVENT_ACTION_ADD, UEVENT_ACTION_REMOVE, UEVENT_ACTION_CHANGE} }
    \cup
    { [UsbDeviceUevent(UEVENT_ACTION_ADD) EXCEPT !.usb_vendor = 4177],
      [UsbDeviceUevent(UEVENT_ACTION_ADD) EXCEPT !.usb_product = 1032],
      [UsbDeviceUevent(UEVENT_ACTION_ADD) EXCEPT !.minor = 4],
      [UsbDeviceUevent(UEVENT_ACTION_REMOVE) EXCEPT !.minor = 4],
      uevent(UEVENT_ACTION_ADD, <<"usb">>, <<"usb_interface">>,
             <<"/devices/pci0/usb1/1-2/1-2:1.0">>, <<>>, <<>>, UNSET, UNSET, 4176, 1031),
      uevent(UEVENT_ACTION_REMOVE, <<"usb">>, <<"usb_device">>, <<"/devices/pci0/usb1/1-2">>,
             <<>>, <<>>, UNSET, UNSET, 4176, 1031) }

----------------------------------------------------------------------------
(* Calls into other modules made by a handler, in the order made *)

call(fn, idx, container, major, minor, assign) ==
    [fn |-> fn, idx |-> idx, container |-> container,
     major |-> major, minor |-> minor, assign |-> assign]

\* what a handler leaves in the history variable: the calls it made, the value
\* it returned (0 for a void handler) and the message it logged last
done(op, calls, ret, log) == [op |-> op, calls |-> calls, ret |-> ret, log |-> log]

\* the timers of the event loop: a bag of the callbacks' data, since the loop
\* may hold two timers with equal data
event_add_timer(timers, data) == timers (+) SetToBag({data})
event_remove_timer(timers, data) == timers (-) SetToBag({data})

RECURSIVE event_add_timers(_, _)
event_add_timers(timers, datas) ==
    IF datas = <<>> THEN timers
    ELSE event_add_timers(event_add_timer(timers, Head(datas)), Tail(datas))

RECURSIVE FlattenSeq(_)
FlattenSeq(ss) == IF ss = <<>> THEN <<>> ELSE Head(ss) \o FlattenSeq(Tail(ss))

----------------------------------------------------------------------------
(* hotplug_handle_usb_device *)

\* the guard of the function: subsystem "usb" and devtype "usb_device", both
\* compared as prefixes (strncmp with the length of the literal)
is_usb_device(event) ==
    /\ strn_equal(event.subsystem, <<"usb">>, 1)
    /\ strn_equal(event.devtype, <<"usb_device">>, 1)

\* remove: the mapping is bound to the event's device node
usb_remove_matches(mapping, event) ==
    /\ event.major = mapping.usbdev.major
    /\ event.minor = mapping.usbdev.minor

\* remove: what is called for the mapping at position idx
usb_remove_calls(mapping, idx, event) ==
    IF usb_remove_matches(mapping, event)
    THEN IF mapping.usbdev.type = HOTPLUG_USBDEV_TYPE_TOKEN
         THEN <<call("token_detach", idx, mapping.container, UNSET, UNSET, FALSE)>>
         ELSE <<call("device_deny", idx, mapping.container,
                     mapping.usbdev.major, mapping.usbdev.minor, FALSE)>>
    ELSE <<>>

\* add: the serial read from sysfs with one trailing newline removed
usb_strip_serial(serial) ==
    IF serial[strlen(serial)] = "\n" THEN SubSeq(serial, 1, strlen(serial) - 1) ELSE serial

\* add: the serial cannot be used
usb_serial_unreadable(file) == ~file.exists \/ strlen(file.content) < 1

\* a variant of usb_add_matches that does not compare the serial
usb_add_matches_any_serial(mapping, event, serial) ==
    /\ mapping.usbdev.id_vendor = event.usb_vendor
    /\ mapping.usbdev.id_product = event.usb_product

\* add: the mapping is for the event's device
usb_add_matches(mapping, event, serial) ==
    /\ mapping.usbdev.id_vendor = event.usb_vendor
    /\ mapping.usbdev.id_product = event.usb_product
    /\ str_equal(mapping.usbdev.i_serial, serial)

\* add: the mapping after the event
usb_add_mapping(mapping, event, serial) ==
    IF usb_add_matches(mapping, event, serial)
    THEN [mapping EXCEPT !.usbdev.major = event.major, !.usbdev.minor = event.minor]
    ELSE mapping

\* add: the name of the device node the token timer waits for
token_devname(event) ==
    (IF ~strn_equal(<<"/dev", "/">>, event.devname, 1) THEN <<"/dev", "/">> ELSE <<"/">>)
        \o event.devname

\* add: the timers scheduled for the mapping at position idx
usb_add_timers(mapping, idx, event, serial) ==
    IF /\ usb_add_matches(mapping, event, serial)
       /\ mapping.usbdev.type = HOTPLUG_USBDEV_TYPE_TOKEN
    THEN <<[container |-> mapping.container, devname |-> token_devname(event),
            fired |-> 0]>>
    ELSE <<>>

\* a variant of usb_add_calls that leaves the allow of a token to the timer
usb_add_calls_unless_token(mapping, idx, event, serial) ==
    IF /\ usb_add_matches(mapping, event, serial)
       /\ mapping.usbdev.type # HOTPLUG_USBDEV_TYPE_TOKEN
    THEN <<call("device_allow", idx, mapping.container, event.major, event.minor,
                mapping.assign)>>
    ELSE <<>>

\* add: what is called for the mapping at position idx
usb_add_calls(mapping, idx, event, serial) ==
    IF usb_add_matches(mapping, event, serial)
    THEN <<call("device_allow", idx, mapping.container, event.major, event.minor,
                mapping.assign)>>
    ELSE <<>>

\* the whole function: the new mapping list, the timers added, the calls made
hotplug_handle_usb_device(list, event, sysfs_serial) ==
    LET n == Len(list)
        rm == IF event.action = UEVENT_ACTION_REMOVE
              THEN FlattenSeq([i \in 1..n |-> usb_remove_calls(list[i], i, event)])
              ELSE <<>>
        adding == event.action = UEVENT_ACTION_ADD /\ ~usb_serial_unreadable(sysfs_serial)
        serial == IF adding THEN usb_strip_serial(sysfs_serial.content) ELSE <<>>
    IN  IF ~is_usb_device(event)
        THEN [list |-> list, timers |-> <<>>, calls |-> <<>>, log |-> ""]
        ELSE IF event.action = UEVENT_ACTION_ADD /\ ~adding
        THEN [list |-> list, timers |-> <<>>, calls |-> <<>>,
              log |-> "Failed to read serial of usb device"]
        ELSE IF ~adding
        THEN [list |-> list, timers |-> <<>>, calls |-> rm,
              log |-> IF event.action = UEVENT_ACTION_REMOVE THEN "usb remove" ELSE ""]
        ELSE [list |-> [i \in 1..n |-> usb_add_mapping(list[i], event, serial)],
              timers |-> FlattenSeq([i \in 1..n |-> usb_add_timers(list[i], i, event, serial)]),
              calls |-> FlattenSeq([i \in 1..n |-> usb_add_calls(list[i], i, event, serial)]),
              log |-> "usb add"]

----------------------------------------------------------------------------
(* hotplug_token_timer_cb *)

file_exists(devname) == devname \in devnodes

\* IF_TRUE_GOTO(0 > retries--, out): the budget is used up
token_retries_exhausted(r) == 0 > r

\* one firing of a timer that is in the event loop: "out" frees the closure and
\* removes the timer, with token_attach called first when the node exists
hotplug_token_timer_cb(timer) ==
    LET exhausted == token_retries_exhausted(retries)
        node == file_exists(timer.devname)
        attach == ~exhausted /\ node
        removed == exhausted \/ node
    IN  /\ BagIn(timer, token_timers)
        /\ retries' = retries - 1
        /\ timer_tick' = 1 - timer_tick
        /\ token_timers' =
              IF removed
              THEN event_remove_timer(token_timers, timer)
              ELSE event_add_timer(event_remove_timer(token_timers, timer),
                                   [timer EXCEPT !.fired = @ + 1])
        /\ last' = done("token_timer",
                         IF attach
                         THEN <<call("container_token_attach", 0, timer.container,
                                     UNSET, UNSET, FALSE)>>
                         ELSE <<>>,
                         0,
                         IF attach THEN "Processed token attachment"
                         ELSE IF removed THEN "removed" ELSE "devname")
        /\ UNCHANGED <<hotplug_container_dev_mapping_list,
                       hotplug_container_netdev_mapping_list, cmld_wlan_idx, cmld_eth_idx,
                       netif_timers, netif_phys, devnodes, wireless, ntoken_timers,
                       nnetif_timers>>

----------------------------------------------------------------------------
(* hotplug_register_usbdevice, hotplug_unregister_usbdevice *)

hotplug_register_usbdevice(container, usbdev) ==
    /\ Len(hotplug_container_dev_mapping_list) < MaxMappings
    /\ hotplug_container_dev_mapping_list' =
          Append(hotplug_container_dev_mapping_list,
                 hotplug_container_dev_mapping_new(container, usbdev))
    /\ last' = done("register_usbdevice", <<>>, 0, "Registered usbdevice")
    /\ UNCHANGED <<hotplug_container_netdev_mapping_list, retries, cmld_wlan_idx,
                   cmld_eth_idx, token_timers, netif_timers, netif_phys, devnodes,
                   wireless,
                   timer_tick, ntoken_timers, nnetif_timers>>

\* a variant of usb_mapping_to_remove that does not compare the container
usb_mapping_to_remove_any_container(list, container, usbdev) ==
    LET hits == { i \in 1..Len(list) :
                    /\ list[i].usbdev.id_vendor = usbdev.id_vendor
                    /\ list[i].usbdev.id_product = usbdev.id_product
                    /\ str_equal(list[i].usbdev.i_serial, usbdev.i_serial) }
    IN  IF hits = {} THEN 0 ELSE CHOOSE i \in hits : \A j \in hits : j <= i

\* a variant of usb_mapping_to_remove in which the first mapping of the
\* container with the key wins
usb_mapping_to_remove_first(list, container, usbdev) ==
    LET hits == { i \in 1..Len(list) :
                    /\ list[i].container = container
                    /\ list[i].usbdev.id_vendor = usbdev.id_vendor
                    /\ list[i].usbdev.id_product = usbdev.id_product
                    /\ str_equal(list[i].usbdev.i_serial, usbdev.i_serial) }
    IN  IF hits = {} THEN 0 ELSE CHOOSE i \in hits : \A j \in hits : i <= j

\* the loop has no break: the last mapping of the container with the key wins
usb_mapping_to_remove(list, container, usbdev) ==
    LET hits == { i \in 1..Len(list) :
                    /\ list[i].container = container
                    /\ list[i].usbdev.id_vendor = usbdev.id_vendor
                    /\ list[i].usbdev.id_product = usbdev.id_product
                    /\ str_equal(list[i].usbdev.i_serial, usbdev.i_serial) }
    IN  IF hits = {} THEN 0 ELSE CHOOSE i \in hits : \A j \in hits : j <= i

\* list_remove of the element at position i (0: nothing to remove)
list_remove(list, i) ==
    IF i = 0 THEN list ELSE SubSeq(list, 1, i - 1) \o SubSeq(list, i + 1, Len(list))

hotplug_unregister_usbdevice(container, usbdev) ==
    LET i == usb_mapping_to_remove(hotplug_container_dev_mapping_list, container, usbdev)
    IN  /\ hotplug_container_dev_mapping_list' =
              list_remove(hotplug_container_dev_mapping_list, i)
        /\ last' = IF i = 0
                   THEN done("unregister_usbdevice", <<>>, -1, "")
                   ELSE done("unregister_usbdevice", <<>>, 0, "Unregistered usbdevice")
        /\ UNCHANGED <<hotplug_container_netdev_mapping_list, retries, cmld_wlan_idx,
                       cmld_eth_idx, token_timers, netif_timers, netif_phys, devnodes,
                       wireless,
                       timer_tick, ntoken_timers, nnetif_timers>>

----------------------------------------------------------------------------
(* Net mappings *)

\* compartment states (the state machine of the compartment record)
CompartmentStates ==
    {"STOPPED", "STARTING", "BOOTING", "RUNNING", "FREEZING", "FROZEN",
     "SHUTTING_DOWN", "ZOMBIE", "REBOOTING", "SETUP"}

\* MAC address strings and the six bytes network_str_to_mac_addr parses from them
MacStrings ==
    { [str |-> <<"02:00:00:00:00:01">>, mac |-> <<2, 0, 0, 0, 0, 1>>] }
Macs == { e.mac : e \in MacStrings }

\* network_str_to_mac_addr: -1 for a string that is no MAC address
network_str_to_mac_addr(str) ==
    IF \E e \in MacStrings : e.str = str
    THEN [ret |-> 0, mac |-> (CHOOSE e \in MacStrings : e.str = str).mac]
    ELSE [ret |-> -1, mac |-> <<0, 0, 0, 0, 0, 0>>]

\* container_pnet_cfg_new(if_name_mac, mac_filter, mac_whitelist)
container_pnet_cfg_new(pnet_name, mac_filter) ==
    [pnet_name |-> pnet_name, mac_filter |-> mac_filter]

\* the configurations a caller registers: named by a MAC string or by an
\* interface name
PnetCfgs ==
    { container_pnet_cfg_new(n, f) :
        n \in {e.str : e \in MacStrings} \cup {<<"eth0">>}, f \in BOOLEAN }

\* a variant of hotplug_container_netdev_mapping_new that does not look at
\* what network_str_to_mac_addr returned
hotplug_container_netdev_mapping_new_unchecked(container, pnet_cfg) ==
    <<[container |-> container, pnet_cfg |-> pnet_cfg,
       mac |-> network_str_to_mac_addr(pnet_cfg.pnet_name).mac]>>

\* NULL, or the mapping (container, configuration, parsed MAC)
hotplug_container_netdev_mapping_new(container, pnet_cfg) ==
    LET parsed == network_str_to_mac_addr(pnet_cfg.pnet_name)
    IN  IF parsed.ret = -1
        THEN <<>>
        ELSE <<[container |-> container, pnet_cfg |-> pnet_cfg, mac |-> parsed.mac]>>

hotplug_register_netdev(container, pnet_cfg) ==
    LET mapping == hotplug_container_netdev_mapping_new(container, pnet_cfg)
    IN  /\ hotplug_container_netdev_mapping_list' =
              hotplug_container_netdev_mapping_list \o mapping
        /\ last' = IF mapping = <<>>
                   THEN done("register_netdev", <<>>, -1, "")
                   ELSE done("register_netdev", <<>>, 0, "Registered netdev")
        /\ UNCHANGED <<hotplug_container_dev_mapping_list, retries, cmld_wlan_idx,
                       cmld_eth_idx, token_timers, netif_timers, netif_phys, devnodes,
                       wireless,
                       timer_tick, ntoken_timers, nnetif_timers>>

\* the loop has no break: the last mapping of the container with the MAC wins
net_mapping_to_remove(list, container, mac) ==
    LET hits == { i \in 1..Len(list) : list[i].container = container /\ list[i].mac = mac }
    IN  IF hits = {} THEN 0 ELSE CHOOSE i \in hits : \A j \in hits : j <= i

hotplug_unregister_netdev(container, mac) ==
    LET i == net_mapping_to_remove(hotplug_container_netdev_mapping_list, container, mac)
    IN  /\ hotplug_container_netdev_mapping_list' =
              list_remove(hotplug_container_netdev_mapping_list, i)
        /\ last' = IF i = 0
                   THEN done("unregister_netdev", <<>>, -1, "")
                   ELSE done("unregister_netdev", <<>>, 0, "Unregistered netdev")
        /\ UNCHANGED <<hotplug_container_dev_mapping_list, retries, cmld_wlan_idx,
                       cmld_eth_idx, token_timers, netif_timers, netif_phys, devnodes,
                       wireless,
                       timer_tick, ntoken_timers, nnetif_timers>>

----------------------------------------------------------------------------
(* Interface rename *)

\* strstr on token sequences: the first position of sub in str, 0 when absent
str_find(str, sub) ==
    LET at == { i \in 1..(Len(str) - Len(sub) + 1) :
                  SubSeq(str, i, i + Len(sub) - 1) = sub }
    IN  IF at = {} THEN 0 ELSE CHOOSE i \in at : \A j \in at : i <= j

\* a variant of hotplug_replace_devpath_new that copies the rest of str from
\* the old name on, not from behind it
hotplug_replace_devpath_new_keeps_old(str, oldstr, newstr) ==
    LET off_old == str_find(str, oldstr)
    IN  IF off_old = 0
        THEN <<>>
        ELSE SubSeq(str, 1, off_old - 1) \o newstr \o SubSeq(str, off_old, Len(str))

\* NULL when oldstr does not occur, else str with its first occurrence replaced
hotplug_replace_devpath_new(str, oldstr, newstr) ==
    LET off_old == str_find(str, oldstr)
    IN  IF off_old = 0
        THEN <<>>
        ELSE SubSeq(str, 1, off_old - 1) \o newstr
                \o SubSeq(str, off_old + Len(oldstr), Len(str))

\* the two counters are unsigned int, printed with %d: the model holds them as
\* the signed int that %d reads, so that 2^31 - 1 is followed by -2^31 and -1
\* (the unsigned 2^32 - 1) by 0
INT_MAX == 2147483647
uint_inc(v) == IF v = INT_MAX THEN (-INT_MAX) - 1 ELSE v + 1

DecimalDigit == <<"0", "1", "2", "3", "4", "5", "6", "7", "8", "9">>

RECURSIVE dec_digits(_)
dec_digits(n) ==
    IF n < 10 THEN <<DecimalDigit[n + 1]>>
    ELSE dec_digits(n \div 10) \o <<DecimalDigit[(n % 10) + 1]>>

\* printf("%d")
fmt_d(v) == IF v >= 0 THEN dec_digits(v) ELSE <<"-">> \o dec_digits(-v)

\* a variant of ifi_newname that takes the index after its increment
ifi_newname_after_inc(infix, idx) == <<"cml">> \o infix \o fmt_d(uint_inc(idx))

\* the name generated for an interface: "cml" infix index
ifi_newname(infix, idx) == <<"cml">> \o infix \o fmt_d(idx)

\* which counter the infix selects
ifi_is_wlan(infix) == str_equal(infix, <<"wlan">>)

\* a variant of hotplug_rename_ifi_new that advances the wlan counter only
hotplug_rename_ifi_new_eth_idx_kept(oldname, infix, wlan_idx, eth_idx, rename_ok) ==
    LET idx == IF ifi_is_wlan(infix) THEN wlan_idx ELSE eth_idx
        newname == ifi_newname(infix, idx)
    IN  [newname |-> IF rename_ok THEN newname ELSE <<>>,
         wlan_idx |-> IF ifi_is_wlan(infix) THEN uint_inc(wlan_idx) ELSE wlan_idx,
         eth_idx |-> eth_idx,
         calls |-> <<[fn |-> "network_rename_ifi", oldname |-> oldname,
                      newname |-> newname, ok |-> rename_ok]>>]

\* hotplug_rename_ifi_new: the counter is advanced before the kernel rename
\* (network_rename_ifi, which succeeds or not) and stays advanced if it fails
hotplug_rename_ifi_new(oldname, infix, wlan_idx, eth_idx, rename_ok) ==
    LET idx == IF ifi_is_wlan(infix) THEN wlan_idx ELSE eth_idx
        newname == ifi_newname(infix, idx)
    IN  [newname |-> IF rename_ok THEN newname ELSE <<>>,
         wlan_idx |-> IF ifi_is_wlan(infix) THEN uint_inc(wlan_idx) ELSE wlan_idx,
         eth_idx |-> IF ifi_is_wlan(infix) THEN eth_idx ELSE uint_inc(eth_idx),
         calls |-> <<[fn |-> "network_rename_ifi", oldname |-> oldname,
                      newname |-> newname, ok |-> rename_ok]>>]

\* uevent_replace_member on the interface and then on the devpath
uevent_replace_member(event, new_ifname, new_devpath) ==
    [event EXCEPT !.interface = new_ifname, !.devpath = new_devpath]

\* if no devtype is set in uevent prefix with eth by default
rename_prefix(event) == IF event.devtype = <<>> THEN <<"eth">> ELSE event.devtype

\* hotplug_rename_interface: newevent is <<>> (NULL) or <<the renamed copy>>
hotplug_rename_interface(event, wlan_idx, eth_idx, phys, rename_ok) ==
    LET r == hotplug_rename_ifi_new(event.interface, rename_prefix(event),
                                    wlan_idx, eth_idx, rename_ok)
        new_devpath == hotplug_replace_devpath_new(event.devpath, event.interface, r.newname)
    IN  [newevent |-> IF r.newname = <<>> \/ new_devpath = <<>>
                      THEN <<>>
                      ELSE <<uevent_replace_member(event, r.newname, new_devpath)>>,
         phys |-> IF r.newname # <<>> /\ event.interface \in phys
                  THEN (phys \ {event.interface}) \cup {r.newname}
                  ELSE phys,
         wlan_idx |-> r.wlan_idx, eth_idx |-> r.eth_idx, calls |-> r.calls]

----------------------------------------------------------------------------
(* hotplug_netdev_move *)

NO_CONTAINER == "NULL"

\* the answers of the collaborators during one move: the MAC read by
\* network_get_mac_by_ifname, cmld_containers_get_c0, container_get_state of the
\* target, and whether network_rename_ifi and cmld_container_add_net_iface
\* succeed. (The result of uevent_event_inject_into_netns is only logged.)
\* An answer that is never asked for is left at its first value.
IfaceMacs == Macs \cup {<<2, 0, 0, 0, 0, 3>>}
MoveInputs ==
    { [mac_ok |-> FALSE, mac |-> <<2, 0, 0, 0, 0, 1>>, c0 |-> "c0", state |-> "STOPPED",
       rename_ok |-> FALSE, add_ok |-> FALSE] }
    \cup
    { [mac_ok |-> TRUE, mac |-> m, c0 |-> NO_CONTAINER, state |-> "STOPPED",
       rename_ok |-> FALSE, add_ok |-> FALSE] : m \in IfaceMacs }
    \cup
    { [mac_ok |-> TRUE, mac |-> m, c0 |-> "c0", state |-> st,
       rename_ok |-> FALSE, add_ok |-> FALSE] :
        m \in IfaceMacs, st \in CompartmentStates \ {"STARTING", "BOOTING", "RUNNING"} }
    \cup
    [mac_ok : {TRUE}, mac : IfaceMacs, c0 : {"c0"},
     state : {"STARTING", "BOOTING", "RUNNING"}, rename_ok : BOOLEAN, add_ok : BOOLEAN]

\* a variant of net_mapping_lookup that takes the first mapping, whatever its MAC
net_mapping_lookup_any_mac(list, iface_mac) == IF list = <<>> THEN 0 ELSE 1

\* the first mapping with the interface's MAC (the loop breaks), 0 when none
net_mapping_lookup(list, iface_mac) ==
    LET hits == { i \in 1..Len(list) : list[i].mac = iface_mac }
    IN  IF hits = {} THEN 0 ELSE CHOOSE i \in hits : \A j \in hits : i <= j

\* a variant of state_allows_move that refuses a stopped compartment only
state_allows_move_unless_stopped(state) == state # "STOPPED"

\* the target compartment accepts interfaces
state_allows_move(state) == state \in {"BOOTING", "RUNNING", "STARTING"}

\* a variant of netdev_move_injects that does not look at mac_filter
netdev_move_injects_unfiltered(add_ok, pnet_cfg) == add_ok

\* after a successful move the uevent is injected unless mac_filter is applied
\* (then there is a bridge interface, and no uevent about the physical one)
netdev_move_injects(add_ok, pnet_cfg) == add_ok /\ ~pnet_cfg.mac_filter

\* the whole function. list, wlan_idx, eth_idx, phys: the state after the call
\* a variant of container_pnet_cfg_set_pnet_name that writes the name into the
\* configuration of the first mapping of the list
container_pnet_cfg_set_pnet_name_of_first(list, hit, name) ==
    IF list = <<>> THEN list ELSE [list EXCEPT ![1].pnet_cfg.pnet_name = name]

\* container_pnet_cfg_set_pnet_name(pnet_cfg, event_ifname): pnet_cfg is the
\* configuration the mapping at position hit points to, or the one made for
\* c0 (hit = 0), which no mapping points to
container_pnet_cfg_set_pnet_name(list, hit, name) ==
    IF hit = 0 THEN list ELSE [list EXCEPT ![hit].pnet_cfg.pnet_name = name]

hotplug_netdev_move(event, in, list, wlan_idx, eth_idx, phys) ==
    LET hit == net_mapping_lookup(list, in.mac)
        container == IF hit # 0 THEN list[hit].container ELSE in.c0
        pnet_cfg == IF hit # 0 THEN list[hit].pnet_cfg
                    ELSE container_pnet_cfg_new(event.interface, FALSE)
        rn == hotplug_rename_interface(event, wlan_idx, eth_idx, phys, in.rename_ok)
        renamed == rn.newevent # <<>>
        ev == IF renamed THEN rn.newevent[1] ELSE event
        cfg == IF renamed THEN [pnet_cfg EXCEPT !.pnet_name = ev.interface] ELSE pnet_cfg
        list2 == IF renamed
                 THEN container_pnet_cfg_set_pnet_name(list, hit, ev.interface)
                 ELSE list
        add == [fn |-> "cmld_container_add_net_iface", container |-> container,
                pnet_cfg |-> cfg, ok |-> in.add_ok]
        inject == [fn |-> "uevent_event_inject_into_netns", container |-> container,
                   event |-> ev]
        failed(log) == [list |-> list, wlan_idx |-> wlan_idx, eth_idx |-> eth_idx,
                        phys |-> phys, calls |-> <<>>, ret |-> -1, log |-> log]
    IN  IF ~in.mac_ok
        THEN failed("Iface with no mac, skipping!")
        ELSE IF container = NO_CONTAINER
        THEN failed("Target container not found, skip moving")
        ELSE IF ~state_allows_move(in.state)
        THEN failed("Target container is not running, skip moving")
        ELSE [list |-> list2, wlan_idx |-> rn.wlan_idx, eth_idx |-> rn.eth_idx,
              phys |-> rn.phys,
              calls |-> rn.calls \o <<add>>
                        \o (IF netdev_move_injects(in.add_ok, cfg) THEN <<inject>> ELSE <<>>),
              ret |-> IF in.add_ok THEN 0 ELSE -1,
              log |-> IF in.add_ok THEN "moved phys network interface" ELSE "cannot move"]

----------------------------------------------------------------------------
(* hotplug_sysfs_netif_timer_cb *)

network_interface_is_wifi(ifname) == ifname \in wireless

\* a variant of netif_not_ready that does not wait for sysfs
netif_not_ready_ignoring_sysfs(event) == FALSE

\* if sysfs is not ready in case of wifi just return and retry
netif_not_ready(event) ==
    str_equal(event.devtype, <<"wlan">>) /\ ~network_interface_is_wifi(event.interface)

\* one firing of the timer of event, which is in the event loop
hotplug_sysfs_netif_timer_cb(event, in) ==
        \E mv \in {hotplug_netdev_move(event, in, hotplug_container_netdev_mapping_list,
                                       cmld_wlan_idx, cmld_eth_idx, netif_phys)} :
        /\ BagIn(event, netif_timers)
        /\ timer_tick' = 1 - timer_tick
        /\ IF netif_not_ready(event)
           THEN /\ last' = done("netif_timer", <<>>, 0, "")
                /\ UNCHANGED <<hotplug_container_dev_mapping_list,
                               hotplug_container_netdev_mapping_list, retries,
                               cmld_wlan_idx, cmld_eth_idx, token_timers, netif_timers,
                               netif_phys, devnodes, wireless, ntoken_timers,
                               nnetif_timers>>
           ELSE /\ hotplug_container_netdev_mapping_list' = mv.list
                /\ cmld_wlan_idx' = mv.wlan_idx
                /\ cmld_eth_idx' = mv.eth_idx
                /\ netif_phys' = mv.phys
                /\ netif_timers' = event_remove_timer(netif_timers, event)
                /\ last' = done("netif_timer", mv.calls, mv.ret, mv.log)
                /\ UNCHANGED <<hotplug_container_dev_mapping_list, retries, token_timers,
                               devnodes, wireless, ntoken_timers, nnetif_timers>>

----------------------------------------------------------------------------
(* hotplug_handle_uevent_cb *)

NetIfNames == {<<"eth7">>, <<"wlan0">>, <<"wwan0">>, <<"veth0">>}

\* uevents of network interfaces: physical ones without devtype, of devtype
\* wlan and of devtype wwan, a virtual one, the removal and the change of a
\* physical one, the add of a device of another subsystem, and the add of a
\* physical interface whose devpath does not hold the interface name
NetUevents ==
    { uevent(UEVENT_ACTION_ADD, <<"net">>, <<>>, <<"/devices/pci0/net/", "eth7">>,
             <<>>, <<"eth7">>, UNSET, UNSET, 0, 0),
      uevent(UEVENT_ACTION_ADD, <<"net">>, <<"wlan">>, <<"/devices/pci0/net/", "wlan0">>,
             <<>>, <<"wlan0">>, UNSET, UNSET, 0, 0),
      uevent(UEVENT_ACTION_ADD, <<"net">>, <<"wwan">>, <<"/devices/pci0/net/", "wwan0">>,
             <<>>, <<"wwan0">>, UNSET, UNSET, 0, 0),
      uevent(UEVENT_ACTION_ADD, <<"net">>, <<>>, <<"/devices/", "virtual", "/net/", "veth0">>,
             <<>>, <<"veth0">>, UNSET, UNSET, 0, 0),
      uevent(UEVENT_ACTION_REMOVE, <<"net">>, <<>>, <<"/devices/pci0/net/", "eth7">>,
             <<>>, <<"eth7">>, UNSET, UNSET, 0, 0),
      uevent(UEVENT_ACTION_CHANGE, <<"net">>, <<>>, <<"/devices/pci0/net/", "eth7">>,
             <<>>, <<"eth7">>, UNSET, UNSET, 0, 0),
      uevent(UEVENT_ACTION_ADD, <<"block">>, <<"disk">>, <<"/devices/pci0/block/", "sda">>,
             <<"sda">>, <<>>, 8, 0, 0, 0),
      uevent(UEVENT_ACTION_ADD, <<"net">>, <<>>, <<"/devices/pci0/net/", "enp3s0">>,
             <<>>, <<"eth9">>, UNSET, UNSET, 0, 0) }

\* a variant of is_phys_net_add that does not look at the devpath
is_phys_net_add_also_virtual(event) ==
    /\ event.action = UEVENT_ACTION_ADD
    /\ str_equal(event.subsystem, <<"net">>)

\* the event is the add of a physical network interface
is_phys_net_add(event) ==
    /\ event.action = UEVENT_ACTION_ADD
    /\ str_equal(event.subsystem, <<"net">>)
    /\ str_find(event.devpath, <<"virtual">>) = 0

\* the handler registered for kernel uevents; sysfs_serial is what the serial
\* file of the event's device holds
hotplug_handle_uevent_cb(event, sysfs_serial) ==
    \E usb \in {hotplug_handle_usb_device(hotplug_container_dev_mapping_list, event,
                                          sysfs_serial)} :
        /\ ntoken_timers + Len(usb.timers) <= MaxTokenTimers
        /\ is_phys_net_add(event) => nnetif_timers < MaxNetifTimers
        /\ hotplug_container_dev_mapping_list' = usb.list
        /\ token_timers' = event_add_timers(token_timers, usb.timers)
        /\ ntoken_timers' = ntoken_timers + Len(usb.timers)
        /\ IF is_phys_net_add(event)
           THEN /\ netif_phys' = netif_phys \cup {event.interface}
                /\ netif_timers' = event_add_timer(netif_timers, event)
                /\ nnetif_timers' = nnetif_timers + 1
           ELSE UNCHANGED <<netif_phys, netif_timers, nnetif_timers>>
        /\ last' = done("uevent", usb.calls, 0, usb.log)
        /\ UNCHANGED <<hotplug_container_netdev_mapping_list, retries, cmld_wlan_idx,
                       cmld_eth_idx, devnodes, wireless, timer_tick>>

----------------------------------------------------------------------------
(* hotplug_init *)

\* the interfaces cmld knows when hotplug_init runs, and whether the kernel
\* rename of each succeeds
InitialNetifs ==
    { <<>>,
      <<[name |-> <<"eth0">>, wifi |-> FALSE, rename_ok |-> TRUE]>>,
      <<[name |-> <<"eth0">>, wifi |-> FALSE, rename_ok |-> FALSE],
        [name |-> <<"wlan1">>, wifi |-> TRUE, rename_ok |-> TRUE]>> }

\* the loop over cmld's interface list: each interface is renamed, and the
\* list entry replaced when the rename succeeded
RECURSIVE hotplug_init_rename(_, _, _)
hotplug_init_rename(netifs, wlan_idx, eth_idx) ==
    IF netifs = <<>>
    THEN [phys |-> {}, wlan_idx |-> wlan_idx, eth_idx |-> eth_idx, returned |-> <<>>]
    ELSE LET ifc == Head(netifs)
             prefix == IF ifc.wifi THEN <<"wlan">> ELSE <<"eth">>
             r == hotplug_rename_ifi_new(ifc.name, prefix, wlan_idx, eth_idx, ifc.rename_ok)
             rest == hotplug_init_rename(Tail(netifs), r.wlan_idx, r.eth_idx)
         IN  [rest EXCEPT !.phys = @ \cup {IF r.newname # <<>> THEN r.newname ELSE ifc.name},
                          !.returned = (IF r.newname # <<>> THEN <<r.newname>> ELSE <<>>) \o @]

\* hotplug_init in hosted mode renames nothing
hotplug_init(hostedmode, netifs) ==
    IF hostedmode
    THEN [phys |-> { netifs[i].name : i \in 1..Len(netifs) }, wlan_idx |-> 0, eth_idx |-> 0,
          returned |-> <<>>]
    ELSE hotplug_init_rename(netifs, 0, 0)

\* the names that the calls of hotplug_rename_ifi_new among calls returned
\* (a failed call returns NULL)
names_returned(calls) ==
    FlattenSeq([i \in DOMAIN calls |->
                  IF calls[i].fn = "network_rename_ifi" /\ calls[i].ok
                  THEN <<calls[i].newname>> ELSE <<>>])

\* the bag of the elements of a sequence
seq_to_bag(seq) == event_add_timers(EmptyBag, seq)

\* hotplug_rename_ifi_new has not been called
NoNamesReturned == ifi_names = EmptyBag

\* no registration since the last unregistration
NO_REGISTRATION == [op |-> "none"]
NoRegistration == reg_before = NO_REGISTRATION

\* the record of a registration: what was registered and the tables before it
registration(op, container, key) ==
    [op |-> op, container |-> container, key |-> key,
     usb |-> hotplug_container_dev_mapping_list,
     net |-> hotplug_container_netdev_mapping_list]

\* the key hotplug_unregister_usbdevice compares
usb_same_key(a, b) ==
    /\ a.id_vendor = b.id_vendor
    /\ a.id_product = b.id_product
    /\ str_equal(a.i_serial, b.i_serial)

\* the record after an unregistration: that of the registration it undoes, when
\* it follows a successful registration at once with the same container and key
usb_unregistration(container, usbdev) ==
    IF /\ reg_before.op = "register_usbdevice"
       /\ last.op = "register_usbdevice"
       /\ last.ret = 0
       /\ reg_before.container = container
       /\ usb_same_key(reg_before.key, usbdev)
    THEN [reg_before EXCEPT !.op = "undone"]
    ELSE NO_REGISTRATION

net_unregistration(container, mac) ==
    IF /\ reg_before.op = "register_netdev"
       /\ last.op = "register_netdev"
       /\ last.ret = 0
       /\ reg_before.container = container
       /\ network_str_to_mac_addr(reg_before.key.pnet_name).mac = mac
    THEN [reg_before EXCEPT !.op = "undone"]
    ELSE NO_REGISTRATION

----------------------------------------------------------------------------
(* The environment: devfs creates device nodes, sysfs publishes the wireless
   directory of an interface *)

DevNodePaths == { token_devname(e) : e \in { x \in UsbUevents : x.devname # <<>> } }

devfs_creates_node(path) ==
    /\ path \notin devnodes
    /\ devnodes' = devnodes \cup {path}
    /\ last' = done("devfs", <<>>, 0, "")
    /\ UNCHANGED <<hotplug_container_dev_mapping_list,
                   hotplug_container_netdev_mapping_list, retries, cmld_wlan_idx,
                   cmld_eth_idx, token_timers, netif_timers, netif_phys, wireless,
                   timer_tick, ntoken_timers, nnetif_timers>>

sysfs_publishes_wireless(ifname) ==
    /\ ifname \notin wireless
    /\ wireless' = wireless \cup {ifname}
    /\ last' = done("sysfs", <<>>, 0, "")
    /\ UNCHANGED <<hotplug_container_dev_mapping_list,
                   hotplug_container_netdev_mapping_list, retries, cmld_wlan_idx,
                   cmld_eth_idx, token_timers, netif_timers, netif_phys, devnodes,
                   timer_tick, ntoken_timers, nnetif_timers>>

----------------------------------------------------------------------------
(* The daemon's Makefile: the list of compartment modules. "module order is
   crucial": the modules are linked, and register themselves, in the order of
   SRC_CMODULES. *)

\* a switch that neither the environment nor the command line of make sets
MakeUndefined == "undefined"
MakeSwitches == {"OCI", "IDMAPPED", "CGROUP_V2", "SYSTEMD"}
MakeEnvs == [MakeSwitches -> {MakeUndefined, "y", "n"}]

\* SRC_CMODULES := ...
cmodules_first == <<"c_smartcard.c", "c_user.c">>

\* a variant of cmodules_always with the volumes module before the network module
cmodules_always_vol_first ==
    <<"c_vol.c", "c_net.c", "c_service.c", "c_run.c", "c_fifo.c", "c_time.c",
      "c_audit.c", "c_cap.c", "c_uevent.c", "c_hotplug.c", "c_seccomp.c">>

\* SRC_CMODULES += ..., outside every conditional
cmodules_always ==
    <<"c_net.c", "c_vol.c", "c_service.c", "c_run.c", "c_fifo.c", "c_time.c",
      "c_audit.c", "c_cap.c", "c_uevent.c", "c_hotplug.c", "c_seccomp.c">>

\* the statements of the Makefile that set the four switches and SRC_CMODULES,
\* in the order of the file
Makefile ==
    << [op |-> "?=", var |-> "OCI", val |-> "n"],
       [op |-> "?=", var |-> "IDMAPPED", val |-> "n"],
       [op |-> "?=", var |-> "CGROUP_V2", val |-> "y"],
       [op |-> "?=", var |-> "SYSTEMD", val |-> "n"],
       [op |-> ":=", val |-> cmodules_first],
       [op |-> "ifeq", var |-> "IDMAPPED", val |-> "y",
        then |-> <<"c_idmapped.c">>, else |-> <<"c_shiftid.c">>],
       [op |-> "ifeq", var |-> "SYSTEMD", val |-> "y",
        then |-> <<"c_cgroups_systemd.c">>, else |-> <<>>],
       [op |-> "ifeq", var |-> "CGROUP_V2", val |-> "y",
        then |-> <<"c_cgroups_v2.c", "c_cgroups_dev.c">>, else |-> <<"c_cgroups.c">>],
       [op |-> "+=", val |-> cmodules_always],
       [op |-> "ifeq", var |-> "OCI", val |-> "y",
        then |-> <<"c_oci.c">>, else |-> <<>>] >>

\* VAR ?= val: sets the variable only when it is not defined yet
make_default(env, var, val) ==
    IF env[var] = MakeUndefined THEN [env EXCEPT ![var] = val] ELSE env

\* ifeq ($(VAR),val) SRC_CMODULES += then else SRC_CMODULES += else endif
make_ifeq(env, mods, st) ==
    IF env[st.var] = st.val THEN mods \o st.then ELSE mods \o st.else

\* make reads the statement at make_pc
make_reads(op) == make_pc <= Len(Makefile) /\ Makefile[make_pc].op = op

MakeDefault ==
    /\ make_reads("?=")
    /\ make_env' = make_default(make_env, Makefile[make_pc].var, Makefile[make_pc].val)
    /\ make_pc' = make_pc + 1
    /\ UNCHANGED <<SRC_CMODULES, hotplug_vars, engine_vars, loop_vars, observer_vars, pkcs12_vars, history_vars, sysfs_vars, uev_vars, ssl_vars>>

MakeAssign ==
    /\ make_reads(":=")
    /\ SRC_CMODULES' = Makefile[make_pc].val
    /\ make_pc' = make_pc + 1
    /\ UNCHANGED <<make_env, hotplug_vars, engine_vars, loop_vars, observer_vars, pkcs12_vars, history_vars, sysfs_vars, uev_vars, ssl_vars>>

MakeAppend ==
    /\ make_reads("+=")
    /\ SRC_CMODULES' = SRC_CMODULES \o Makefile[make_pc].val
    /\ make_pc' = make_pc + 1
    /\ UNCHANGED <<make_env, hotplug_vars, engine_vars, loop_vars, observer_vars, pkcs12_vars, history_vars, sysfs_vars, uev_vars, ssl_vars>>

MakeIfeq ==
    /\ make_reads("ifeq")
    /\ SRC_CMODULES' = make_ifeq(make_env, SRC_CMODULES, Makefile[make_pc])
    /\ make_pc' = make_pc + 1
    /\ UNCHANGED <<make_env, hotplug_vars, engine_vars, loop_vars, observer_vars, pkcs12_vars, history_vars, sysfs_vars, uev_vars, ssl_vars>>

\* make starts reading the Makefile: SRC_CMODULES expands to nothing yet
MakeStarts(env) ==
    /\ make_env = env
    /\ make_pc = 1
    /\ SRC_CMODULES = <<>>

\* the daemon that runs was built with no switch set: the defaults
BuiltByDefault ==
    /\ make_env = [v \in MakeSwitches |-> IF v = "CGROUP_V2" THEN "y" ELSE "n"]
    /\ make_pc = Len(Makefile) + 1
    /\ SRC_CMODULES = cmodules_first \o <<"c_shiftid.c", "c_cgroups_v2.c", "c_cgroups_dev.c">>
                        \o cmodules_always

----------------------------------------------------------------------------
(* The lifecycle engine of one compartment, as the specification describes it
   (sections 3, 4.2 and 5): phases of hooks called on every registered module
   in registry order, teardown, and the compartment state machine. *)

\* the registry: the modules register at process start, in the order of the
\* build's list
module_list == SubSeq(SRC_CMODULES, 1, MaxModules)
NumModules == Len(module_list)

\* the canonical forward phases of a start, in their order
ForwardPhases ==
    <<"precheck", "stop_clean", "setup_early", "clone_prep", "clone_post_in_child",
      "post_clone", "start_pre_exec", "start_pre_exec_child", "start_post_exec",
      "start_child_early", "start_complete">>

\* the child is forked after this phase
FORK_AFTER == "clone_prep"

\* a new attempt: nothing executed yet, the first hook of the first phase next
engine_attempt ==
    /\ start_phase' = 1
    /\ next_module' = 1
    /\ executed' = {}
    /\ cleanup_calls' = <<>>
    /\ teardown' = "none"
    /\ child_ready' = FALSE
    /\ failed_module' = 0

\* start(uuid): STOPPED -> STARTING (start requested)
compartment_start ==
    /\ c_state = "STOPPED"
    /\ nstarts < MaxStarts
    /\ c_state' = "STARTING"
    /\ nstarts' = nstarts + 1
    /\ engine_attempt
    /\ UNCHANGED <<deferred_stop, queued_stop, child>>

\* a variant of phase_completed that does not look at the deferred-stop flag
phase_completed_ignoring_stop(phase, deferred) ==
    IF phase = Len(ForwardPhases) THEN "running"
    ELSE IF ForwardPhases[phase] = FORK_AFTER THEN "fork"
    ELSE "next"

\* what the engine does when the last module's hook of a phase has succeeded:
\* with the deferred-stop flag set it begins teardown at once; after the last
\* pre-child phase it forks the child; after start_complete the compartment
\* runs
phase_completed(phase, deferred) ==
    IF deferred THEN "teardown"
    ELSE IF phase = Len(ForwardPhases) THEN "running"
    ELSE IF ForwardPhases[phase] = FORK_AFTER THEN "fork"
    ELSE "next"

\* a hook of this attempt has failed
attempt_failed == failed_module # 0

\* a variant of cleanup_set that leaves out the module whose hook failed
cleanup_set_without_failing(ran, failing) == ran \ {failing}

\* the modules whose cleanup hook teardown calls: every module that executed
\* a forward hook in the current attempt (section 8, property 1), which
\* includes every module that had succeeded in an earlier phase (section 4.2)
cleanup_set(ran, failing) == ran

\* the engine calls the hook of the phase in progress on the next module; the
\* hook succeeds or fails. start_complete waits for the child's readiness.
forward_hook(ok) ==
    /\ c_state \in {"STARTING", "BOOTING"}
    /\ teardown = "none"
    /\ start_phase \in 1..Len(ForwardPhases)
    /\ ForwardPhases[start_phase] = "start_complete" => child_ready
    /\ IF ~ok
       THEN \* abort the phase, clean up, in reverse registration order
            /\ executed' = executed \cup {next_module}
            /\ failed_module' = next_module
            /\ c_state' = "SHUTTING_DOWN"
            /\ teardown' = "cleanup"
            /\ start_phase' = 0
            /\ next_module' = NumModules
            /\ UNCHANGED <<child, child_ready>>
       ELSE /\ executed' = executed \cup {next_module}
            /\ UNCHANGED <<failed_module, child_ready>>
            /\ IF next_module < NumModules
               THEN /\ next_module' = next_module + 1
                    /\ UNCHANGED <<c_state, teardown, start_phase, child>>
               ELSE \E todo \in {phase_completed(start_phase, deferred_stop)} :
                      /\ c_state' = CASE todo = "teardown" -> "SHUTTING_DOWN"
                                      [] todo = "fork" -> "BOOTING"
                                      [] todo = "running" -> "RUNNING"
                                      [] OTHER -> c_state
                      /\ teardown' = IF todo = "teardown" THEN "stop" ELSE "none"
                      /\ start_phase' = IF todo \in {"teardown", "running"}
                                        THEN 0 ELSE start_phase + 1
                      /\ next_module' = 1
                      /\ child' = IF todo = "fork" THEN "alive" ELSE child
    /\ UNCHANGED <<cleanup_calls, deferred_stop, queued_stop, nstarts>>

\* teardown: the stop hook of every module, in registry order
stop_hook ==
    /\ teardown = "stop"
    /\ IF next_module < NumModules
       THEN next_module' = next_module + 1 /\ teardown' = "stop"
       ELSE next_module' = NumModules /\ teardown' = "cleanup"
    /\ UNCHANGED <<c_state, start_phase, executed, cleanup_calls, deferred_stop,
                   queued_stop, child, child_ready, failed_module, nstarts>>

\* teardown: the cleanup hook of the next module to clean up, going through
\* the registry from its end; a cleanup hook cannot refuse
cleanup_hook ==
    /\ teardown = "cleanup"
    /\ LET todo == { m \in cleanup_set(executed, failed_module) : m <= next_module }
       IN  IF todo = {}
           THEN /\ teardown' = "reap"
                /\ UNCHANGED <<next_module, cleanup_calls>>
           ELSE LET m == CHOOSE x \in todo : \A y \in todo : y <= x
                IN  /\ cleanup_calls' = Append(cleanup_calls, m)
                    /\ next_module' = m - 1
                    /\ teardown' = "cleanup"
    /\ UNCHANGED <<c_state, start_phase, executed, deferred_stop, queued_stop, child,
                   child_ready, failed_module, nstarts>>

\* teardown ends: the child, if there is one, is reaped or cannot be. A
\* stopping compartment becomes STOPPED, or ZOMBIE with the child unreaped; a
\* rebooting one starts again once the child is reaped.
teardown_done(reaped) ==
    /\ teardown = "reap"
    /\ child = "none" => reaped
    /\ IF c_state = "REBOOTING"
       THEN /\ reaped
            /\ nstarts < MaxStarts
            /\ c_state' = "STARTING"
            /\ nstarts' = nstarts + 1
            /\ child' = "none"
            /\ engine_attempt
            /\ UNCHANGED <<deferred_stop, queued_stop>>
       ELSE /\ c_state' = IF reaped THEN "STOPPED" ELSE "ZOMBIE"
            /\ child' = IF reaped THEN "none" ELSE child
            /\ teardown' = "none"
            /\ deferred_stop' = FALSE
            /\ queued_stop' = FALSE
            /\ UNCHANGED <<start_phase, next_module, executed, cleanup_calls,
                           child_ready, failed_module, nstarts>>

\* a variant of compartment_stop in which a stop request cancels the freeze
\* and teardown begins from the freezing or frozen state
compartment_stop_cancelling_freeze ==
    /\ \/ /\ c_state \in {"STARTING", "BOOTING"}
          /\ ~deferred_stop
          /\ deferred_stop' = TRUE
          /\ UNCHANGED <<c_state, teardown, next_module, queued_stop>>
       \/ /\ c_state \in {"RUNNING", "FREEZING", "FROZEN"}
          /\ c_state' = "SHUTTING_DOWN"
          /\ teardown' = "stop"
          /\ next_module' = 1
          /\ UNCHANGED <<deferred_stop, queued_stop>>
    /\ UNCHANGED <<start_phase, executed, cleanup_calls, child, child_ready,
                   failed_module, nstarts>>

\* stop(uuid): while a start is pending the request is recorded; a running
\* compartment begins teardown; while freezing or frozen the request is
\* queued until the compartment runs again (scenario S4); in the other states
\* the request is refused with an error reply and changes nothing
compartment_stop ==
    /\ \/ /\ c_state \in {"STARTING", "BOOTING"}
          /\ ~deferred_stop
          /\ deferred_stop' = TRUE
          /\ UNCHANGED <<c_state, teardown, next_module, queued_stop>>
       \/ /\ c_state = "RUNNING"
          /\ c_state' = "SHUTTING_DOWN"
          /\ teardown' = "stop"
          /\ next_module' = 1
          /\ UNCHANGED <<deferred_stop, queued_stop>>
       \/ /\ c_state \in {"FREEZING", "FROZEN"}
          /\ ~queued_stop
          /\ queued_stop' = TRUE
          /\ UNCHANGED <<c_state, teardown, next_module, deferred_stop>>
    /\ UNCHANGED <<start_phase, executed, cleanup_calls, child, child_ready,
                   failed_module, nstarts>>

\* the child signals readiness (a pipe write) once its own hooks are done
child_signals_ready ==
    /\ c_state = "BOOTING"
    /\ teardown = "none"
    /\ child = "alive"
    /\ ~child_ready
    /\ start_phase = Len(ForwardPhases)
    /\ child_ready' = TRUE
    /\ UNCHANGED <<c_state, start_phase, next_module, executed, cleanup_calls, teardown,
                   deferred_stop, queued_stop, child, failed_module, nstarts>>

\* SIGCHLD: the child of a booting or running compartment has exited
child_exited ==
    /\ c_state \in {"BOOTING", "RUNNING"}
    /\ child = "alive"
    /\ child' = "exited"
    /\ c_state' = "SHUTTING_DOWN"
    /\ teardown' = "cleanup"
    /\ start_phase' = 0
    /\ next_module' = NumModules
    /\ UNCHANGED <<executed, cleanup_calls, deferred_stop, queued_stop, child_ready,
                   failed_module, nstarts>>

\* freeze(uuid), the cgroup freezer's completion, unfreeze(uuid)
compartment_freeze ==
    /\ c_state = "RUNNING"
    /\ c_state' = "FREEZING"
    /\ UNCHANGED <<start_phase, next_module, executed, cleanup_calls, teardown,
                   deferred_stop, queued_stop, child, child_ready, failed_module,
                   nstarts>>

freezer_frozen ==
    /\ c_state = "FREEZING"
    /\ c_state' = "FROZEN"
    /\ UNCHANGED <<start_phase, next_module, executed, cleanup_calls, teardown,
                   deferred_stop, queued_stop, child, child_ready, failed_module,
                   nstarts>>

compartment_unfreeze ==
    /\ c_state = "FROZEN"
    /\ c_state' = "RUNNING"
    /\ UNCHANGED <<start_phase, next_module, executed, cleanup_calls, teardown,
                   deferred_stop, queued_stop, child, child_ready, failed_module,
                   nstarts>>

\* the stop queued while frozen is executed once the compartment runs again
queued_stop_runs ==
    /\ c_state = "RUNNING"
    /\ queued_stop
    /\ c_state' = "SHUTTING_DOWN"
    /\ teardown' = "stop"
    /\ next_module' = 1
    /\ queued_stop' = FALSE
    /\ UNCHANGED <<start_phase, executed, cleanup_calls, deferred_stop, child,
                   child_ready, failed_module, nstarts>>

\* reboot requested from inside: stop followed by start
compartment_reboot ==
    /\ c_state = "RUNNING"
    /\ ~queued_stop
    /\ nstarts < MaxStarts
    /\ c_state' = "REBOOTING"
    /\ teardown' = "stop"
    /\ next_module' = 1
    /\ UNCHANGED <<start_phase, executed, cleanup_calls, deferred_stop, queued_stop,
                   child, child_ready, failed_module, nstarts>>

\* the observer list of the compartment, in the order of notification
observer_list == <<"A", "B">>

\* a variant of observers_returned for notifications delivered later, from
\* the loop, with other callbacks in between
observers_returned_or_not(queue) == TRUE

\* notifications are synchronous: the transition's code goes on, and the loop
\* takes the next callback, only when every observer has returned
observers_returned(queue) == queue = <<>>

\* on any transition the observer list is notified
transition_notifies ==
    /\ observers_returned(notify_queue)
    /\ IF c_state' # c_state
       THEN notify_queue' =
                notify_queue \o
                [i \in DOMAIN observer_list |->
                    [observer |-> observer_list[i], pre |-> c_state, post |-> c_state']]
       ELSE UNCHANGED notify_queue
    /\ UNCHANGED observed

\* the next observer is called back and reads the compartment's state; an
\* observer triggers no transition
observer_notified ==
    /\ notify_queue # <<>>
    /\ observed' = [observer |-> Head(notify_queue).observer,
                    pre |-> Head(notify_queue).pre,
                    post |-> Head(notify_queue).post,
                    saw |-> c_state]
    /\ notify_queue' = Tail(notify_queue)

\* no transition made, no observer notified
ObserversIdle ==
    /\ notify_queue = <<>>
    /\ observed = [observer |-> "none", pre |-> "STOPPED", post |-> "STOPPED",
                   saw |-> "STOPPED"]

\* no compartment has been started
EngineIdle ==
    /\ c_state = "STOPPED"
    /\ start_phase = 0
    /\ next_module = 1
    /\ executed = {}
    /\ cleanup_calls = <<>>
    /\ teardown = "none"
    /\ deferred_stop = FALSE
    /\ queued_stop = FALSE
    /\ child = "none"
    /\ child_ready = FALSE
    /\ failed_module = 0
    /\ nstarts = 0

----------------------------------------------------------------------------
(* The event loop with two compartments starting (section 5 and scenario S5):
   all compartment operations serialize on the single-threaded loop, a hook
   runs as one callback, and a hook that needs a reply of the credential
   collaborator returns "pending" and is resumed when the reply fd fires. *)

LoopCompartments == {"c5", "c6"}

\* the hook calls of a start from its beginning, in canonical order: every
\* phase in turn, in it every module in registry order
CanonicalCalls ==
    [i \in 1..(Len(ForwardPhases) * NumModules) |->
        <<((i - 1) \div NumModules) + 1, ((i - 1) % NumModules) + 1>>]

\* lc_phase of a compartment whose start is over (completed or aborted)
StartOver == Len(ForwardPhases) + 1

\* a variant of loop_can_dispatch for a loop that runs callbacks from inside
\* a callback
loop_can_dispatch_nested(running) == TRUE

\* the loop takes the next callback only when the one before has returned
loop_can_dispatch(running) == running = "idle"

\* start(uuid) of a stopped compartment
loop_start(c) ==
    /\ loop_can_dispatch(loop_running)
    /\ lc_phase[c] = 0
    /\ lc_phase' = [lc_phase EXCEPT ![c] = 1]
    /\ lc_module' = [lc_module EXCEPT ![c] = 1]
    /\ UNCHANGED <<loop_running, lc_hook, lc_calls>>

\* the engine, called back by the loop, calls the next hook of c
loop_hook_call(c) ==
    /\ loop_can_dispatch(loop_running)
    /\ lc_phase[c] \in 1..Len(ForwardPhases)
    /\ lc_hook[c] = "none"
    /\ loop_running' = c
    /\ lc_hook' = [lc_hook EXCEPT ![c] = "running"]
    /\ lc_calls' = [lc_calls EXCEPT ![c] = Append(@, <<lc_phase[c], lc_module[c]>>)]
    /\ UNCHANGED <<lc_phase, lc_module>>

\* the hook running on the loop returns: done, failed, or pending
loop_hook_return(c, result) ==
    /\ loop_running = c
    /\ lc_hook[c] = "running"
    /\ loop_running' = "idle"
    /\ CASE result = "pending" ->
              /\ lc_hook' = [lc_hook EXCEPT ![c] = "parked"]
              /\ UNCHANGED <<lc_phase, lc_module>>
         [] result = "failed" ->
              /\ lc_hook' = [lc_hook EXCEPT ![c] = "none"]
              /\ lc_phase' = [lc_phase EXCEPT ![c] = StartOver]
              /\ UNCHANGED lc_module
         [] OTHER ->
              /\ lc_hook' = [lc_hook EXCEPT ![c] = "none"]
              /\ IF lc_module[c] < NumModules
                 THEN /\ lc_module' = [lc_module EXCEPT ![c] = @ + 1]
                      /\ UNCHANGED lc_phase
                 ELSE /\ lc_module' = [lc_module EXCEPT ![c] = 1]
                      /\ lc_phase' = [lc_phase EXCEPT ![c] = @ + 1]
    /\ UNCHANGED lc_calls

\* the reply fd of a parked compartment fires: the loop runs the continuation
\* of its hook
loop_reply_fd(c) ==
    /\ loop_can_dispatch(loop_running)
    /\ lc_hook[c] = "parked"
    /\ loop_running' = c
    /\ lc_hook' = [lc_hook EXCEPT ![c] = "running"]
    /\ UNCHANGED <<lc_phase, lc_module, lc_calls>>

\* the loop is idle and no compartment is starting
LoopIdle ==
    /\ loop_running = "idle"
    /\ lc_phase = [c \in LoopCompartments |-> 0]
    /\ lc_module = [c \in LoopCompartments |-> 1]
    /\ lc_hook = [c \in LoopCompartments |-> "none"]
    /\ lc_calls = [c \in LoopCompartments |-> <<>>]

----------------------------------------------------------------------------
(* Unlocking a PKCS#12 token (ssl_read_pkcs12_token of the ssl utilities) *)

\* passwords
Passphrases == {<<>>, <<"1234">>, <<"0000">>}

\* no MAC in the structure
MAC_ABSENT == <<"no mac">>

\* the files a token path can name: no file that can be opened, a file that
\* is not a PKCS#12 structure, and PKCS#12 structures, each with or without a
\* MAC under some password, its bags encrypted under some password, and with
\* or without a key and a certificate in its bags
NoTokenFile == [kind |-> "missing", mac |-> MAC_ABSENT, enc |-> <<>>, key |-> FALSE,
                cert |-> FALSE]
NotPkcs12 == [kind |-> "garbage", mac |-> MAC_ABSENT, enc |-> <<>>, key |-> FALSE,
              cert |-> FALSE]
TokenFiles ==
    {NoTokenFile, NotPkcs12} \cup
    [kind : {"p12"}, mac : Passphrases \cup {MAC_ABSENT}, enc : Passphrases,
     key : BOOLEAN, cert : BOOLEAN]

\* fopen(token_file, "rb")
fopen_rb(file) == file.kind # "missing"

\* d2i_PKCS12_fp: a structure, or NULL
d2i_PKCS12_fp(file) == file.kind = "p12"

\* PKCS12_verify_mac(p12, pass, -1): 1 when the MAC computed under the
\* password equals the stored one, 0 when it differs or there is none
PKCS12_verify_mac(p12, pass) == IF p12.mac # MAC_ABSENT /\ p12.mac = pass THEN 1 ELSE 0

\* PKCS12_parse(p12, pass, pkey, cert, ca): 1 when the bags decrypt under the
\* password, 0 otherwise
PKCS12_parse(p12, pass) == IF p12.enc = pass THEN 1 ELSE 0

\* not called
P12_NOT_CALLED == -3

p12_result(ret, pkey, cert) == [ret |-> ret, pkey |-> pkey, cert |-> cert]

\* a variant of ssl_read_pkcs12_token that parses before it verifies the MAC
ssl_read_pkcs12_token_parse_first(file, pass) ==
    IF ~fopen_rb(file) THEN p12_result(-2, FALSE, FALSE)
    ELSE IF ~d2i_PKCS12_fp(file) THEN p12_result(-2, FALSE, FALSE)
    ELSE IF PKCS12_parse(file, pass) = 0 THEN p12_result(-2, FALSE, FALSE)
    ELSE IF PKCS12_verify_mac(file, pass) # 1 THEN p12_result(-1, FALSE, FALSE)
    ELSE p12_result(0, file.key, file.cert)

\* ssl_read_pkcs12_token(token_file, passphrase, pkey, cert, ca): ret starts
\* as -2, becomes -1 when the MAC check fails and 0 after a successful parse
ssl_read_pkcs12_token(file, pass) ==
    IF ~fopen_rb(file) THEN p12_result(-2, FALSE, FALSE)
    ELSE IF ~d2i_PKCS12_fp(file) THEN p12_result(-2, FALSE, FALSE)
    ELSE IF PKCS12_verify_mac(file, pass) # 1 THEN p12_result(-1, FALSE, FALSE)
    ELSE IF PKCS12_parse(file, pass) = 0 THEN p12_result(-2, FALSE, FALSE)
    ELSE p12_result(0, file.key, file.cert)

\* a caller gives a token file and a passphrase
TokenUnlockWith(file, pass) ==
    /\ token_file = file
    /\ passphrase = pass
    /\ p12_out = p12_result(P12_NOT_CALLED, FALSE, FALSE)

\* no token is being unlocked
TokenUnlockIdle == TokenUnlockWith(NoTokenFile, <<>>)

----------------------------------------------------------------------------
(* hotplug_usbdev_set_sysfs_props *)

\* an idVendor or idProduct file: whether it exists, the bytes file_read
\* returns and the value sscanf reads with %hx
sysfs_id_file(len, hx) == [exists |-> TRUE, len |-> len, hx |-> hx]

\* a dev file: the numbers sscanf reads with %d:%d, -1 where it reads none
sysfs_dev_file(major, minor) == [exists |-> TRUE, major |-> major, minor |-> minor]
NoDevFile == [exists |-> FALSE, major |-> UNSET, minor |-> UNSET]

\* one entry of /sys/bus/usb/devices
sysfs_usb_device(id_vendor, id_product, serial, dev) ==
    [idVendor |-> id_vendor, idProduct |-> id_product, serial |-> serial, dev |-> dev]

\* the device 1050:0407 with serial 0001 at 189:3
SysfsToken ==
    sysfs_usb_device(sysfs_id_file(5, 4176), sysfs_id_file(5, 1031),
                     [exists |-> TRUE, content |-> <<"0001", "\n">>], sysfs_dev_file(189, 3))

\* the entries that occur: the device, and entries that differ from it in the
\* vendor, in a short idProduct file, in the serial (none, 00012, 0002), in
\* the dev file (none, not two numbers) and in the device node
SysfsUsbDevices ==
    { SysfsToken,
      [SysfsToken EXCEPT !.idVendor = sysfs_id_file(5, 4177)],
      [SysfsToken EXCEPT !.idProduct = sysfs_id_file(3, 1031)],
      [SysfsToken EXCEPT !.serial = NoSerialFile],
      [SysfsToken EXCEPT !.serial = [exists |-> TRUE, content |-> <<"0001", "2", "\n">>]],
      [SysfsToken EXCEPT !.serial = [exists |-> TRUE, content |-> <<"0002", "\n">>]],
      [SysfsToken EXCEPT !.dev = NoDevFile],
      [SysfsToken EXCEPT !.dev = sysfs_dev_file(UNSET, UNSET)],
      [SysfsToken EXCEPT !.dev = sysfs_dev_file(189, 4)] }

\* the directories /sys/bus/usb/devices can be
SysfsUsbDirs ==
    UNION { [1..n -> SysfsUsbDevices] : n \in 0..MaxSysfsDevices }

\* the serial part of found: strncmp over the length of the usbdev's serial;
\* an entry without serial file is not compared
sysfs_serial_found(file, usbdev) ==
    IF file.exists
    THEN strn_equal(file.content, usbdev.i_serial, strlen(usbdev.i_serial))
    ELSE TRUE

\* hotplug_usbdev_sysfs_foreach_cb: 1 and the usbdev with major and minor set,
\* or 0 and the usbdev as it is
hotplug_usbdev_sysfs_foreach_cb(device, usbdev) ==
    LET nothing == [ret |-> 0, usbdev |-> usbdev]
    IN  IF ~device.idProduct.exists \/ ~device.idVendor.exists \/ ~device.dev.exists
        THEN nothing
        ELSE IF device.idProduct.len < 4 \/ device.idVendor.len < 4
        THEN nothing
        ELSE IF ~ /\ device.idProduct.hx = usbdev.id_product
                  /\ device.idVendor.hx = usbdev.id_vendor
                  /\ sysfs_serial_found(device.serial, usbdev)
        THEN nothing
        ELSE IF ~(device.dev.major > -1 /\ device.dev.minor > -1)
        THEN nothing
        ELSE [ret |-> 1,
              usbdev |-> [usbdev EXCEPT !.major = device.dev.major,
                                        !.minor = device.dev.minor]]

\* dir_foreach: the callback is called for every entry, in the order of the
\* directory; the result is the sum of what the calls returned
RECURSIVE dir_foreach(_, _)
dir_foreach(entries, usbdev) ==
    IF entries = <<>>
    THEN [ret |-> 0, usbdev |-> usbdev]
    ELSE LET r == hotplug_usbdev_sysfs_foreach_cb(Head(entries), usbdev)
             rest == dir_foreach(Tail(entries), r.usbdev)
         IN  [ret |-> r.ret + rest.ret, usbdev |-> rest.usbdev]

hotplug_usbdev_set_sysfs_props(usbdev, entries) ==
    LET r == dir_foreach(entries, usbdev)
    IN  [called |-> TRUE, ret |-> IF 0 >= r.ret THEN -1 ELSE 0, usbdev |-> r.usbdev]

\* the call has not been made
props_not_called(usbdev) == [called |-> FALSE, ret |-> 0, usbdev |-> usbdev]

SysfsPropsWith(entries, usbdev) ==
    /\ sysfs_usb_devices = entries
    /\ props_usbdev = usbdev
    /\ props_out = props_not_called(usbdev)

\* no usbdev is being looked up
SysfsPropsIdle == SysfsPropsWith(<<>>, hotplug_usbdev_new(HOTPLUG_USBDEV_TYPE_GENERIC, 0, 0, <<>>, FALSE))

----------------------------------------------------------------------------
(* hotplug_init, hotplug_cleanup: the handler of kernel uevents *)

\* static uevent_uev_t *uevent_uev = NULL
HandlerNotRegistered == uevent_uev = "NULL" /\ daemon_aborted = FALSE

\* after hotplug_init: uevent_uev_new and uevent_add_uev
HandlerRegistered == uevent_uev = "handler" /\ daemon_aborted = FALSE

\* the event loop calls hotplug_handle_uevent_cb for a kernel uevent
uevent_delivered == uevent_uev = "handler" /\ ~daemon_aborted

\* hotplug_cleanup returns at once for NULL; otherwise it removes and frees
\* what uevent_uev points to and leaves the pointer as it is. For a pointer
\* already freed the two calls are a use after free and a double free, which
\* the allocator detects (abort) or does not
hotplug_cleanup ==
    /\ ~daemon_aborted
    /\ IF uevent_uev = "NULL"
       THEN /\ last' = done("hotplug_cleanup", <<>>, 0, "")
            /\ UNCHANGED <<uevent_uev, daemon_aborted>>
       ELSE /\ last' = done("hotplug_cleanup",
                             <<[fn |-> "uevent_remove_uev", uev |-> uevent_uev],
                               [fn |-> "uevent_uev_free", uev |-> uevent_uev]>>, 0, "")
            /\ uevent_uev' = "freed"
            /\ IF uevent_uev = "freed"
               THEN daemon_aborted' \in BOOLEAN
               ELSE UNCHANGED daemon_aborted
    /\ UNCHANGED <<hotplug_container_dev_mapping_list,
                   hotplug_container_netdev_mapping_list, retries, cmld_wlan_idx,
                   cmld_eth_idx, token_timers, netif_timers, netif_phys, devnodes,
                   wireless, timer_tick, ntoken_timers, nnetif_timers>>

----------------------------------------------------------------------------
(* ssl_util.c: ssl_aes_ecb_encrypt *)

ssl_not_called == [called |-> FALSE]
SslIdle == ssl_args = [fn |-> "none"] /\ ssl_out = ssl_not_called

\* EVP_CIPHER_block_size of EVP_aes_128_ecb and EVP_aes_256_ecb
AES_BLOCK_SIZE == 16

\* EVP_EncryptUpdate enciphers every whole block of the input at once, writes
\* it to out and keeps the rest (less than one block) in the context
EVP_EncryptUpdate(inlen) ==
    [ret |-> 1, outl |-> (inlen \div AES_BLOCK_SIZE) * AES_BLOCK_SIZE,
     buffered |-> inlen % AES_BLOCK_SIZE]

\* EVP_EncryptFinal_ex: with padding it fills the kept rest up to one block
\* (a whole block of padding when nothing is kept) and writes that block;
\* without padding it writes nothing and fails when a rest is kept
EVP_EncryptFinal_ex(buffered, pad) ==
    IF pad # 0 THEN [ret |-> 1, outl |-> AES_BLOCK_SIZE]
    ELSE IF buffered # 0 THEN [ret |-> 0, outl |-> 0]
    ELSE [ret |-> 1, outl |-> 0]

\* the space the function asks of the caller: inlen + pad_len
aes_ecb_maxlen(inlen) ==
    LET block_size == AES_BLOCK_SIZE
        pad_len == IF inlen % block_size # 0
                   THEN block_size - (inlen % block_size) ELSE 0
    IN  inlen + pad_len

\* the return value, *outlen afterwards, the bytes written to out, and whether
\* encryption was started
ssl_aes_ecb_encrypt(inlen, outlen, keylen, pad, ctx_ok) ==
    LET failed(written, started) ==
            [called |-> TRUE, ret |-> -1, outlen |-> outlen, written |-> written,
             encrypting |-> started]
        maxlen == aes_ecb_maxlen(inlen)
        update == EVP_EncryptUpdate(inlen)
        final == EVP_EncryptFinal_ex(update.buffered, pad)
    IN  IF keylen # 16 /\ keylen # 32 THEN failed(0, FALSE)
        ELSE IF ~ctx_ok THEN failed(0, FALSE)
        ELSE IF outlen < maxlen THEN failed(0, FALSE)
        ELSE IF final.ret = 0
             THEN [called |-> TRUE, ret |-> -1, outlen |-> update.outl,
                   written |-> update.outl, encrypting |-> TRUE]
        ELSE [called |-> TRUE, ret |-> 0, outlen |-> update.outl + final.outl,
              written |-> update.outl + final.outl, encrypting |-> TRUE]

AesKeyLens == {16, 24, 32}

AesArgs ==
    [fn : {"ssl_aes_ecb_encrypt"}, inlen : 0..MaxInLen, outlen : 0..MaxOutLen,
     keylen : AesKeyLens, pad : {0, 1}, ctx_ok : BOOLEAN]

----------------------------------------------------------------------------
(* ssl_util.c: ssl_wrap_key, ssl_unwrap_key *)

\* sizeof(int)
SIZEOF_INT == 4

\* EVP_CIPHER_iv_length and the block size of CIPHER_KEY_WRAP, aes-256-cbc
IV_LEN == 16
CBC_BLOCK_SIZE == 16

fill(n, b) == [i \in 1..n |-> b]

\* memcpy(p, &v, sizeof(int)): the four bytes of a 32-bit int in two's
\* complement, lowest byte first
int_bytes(v) ==
    [i \in 1..SIZEOF_INT |->
        IF v >= 0 THEN (v \div (256 ^ (i - 1))) % 256
        ELSE 255 - (((-v - 1) \div (256 ^ (i - 1))) % 256)]

\* *((int *)p): the 32-bit int read back from four bytes
bytes_int(b) ==
    IF b[4] >= 128
    THEN -(1 + (255 - b[1]) + (255 - b[2]) * 256 + (255 - b[3]) * 65536
             + (255 - b[4]) * 16777216)
    ELSE b[1] + b[2] * 256 + b[3] * 65536 + b[4] * 16777216

\* what EVP_SealInit, EVP_SealUpdate and EVP_SealFinal hand back: the session
\* key enciphered for pkey (EVP_PKEY_size bytes), the iv, and the ciphertext
\* of the key, padded to whole blocks
EVP_Seal(pkey_size, plain_key_len, seal_ok, tmpkey_byte, iv_byte, out_byte) ==
    [ok |-> seal_ok,
     tmpkey |-> fill(pkey_size, tmpkey_byte),
     iv |-> fill(IV_LEN, iv_byte),
     out |-> fill((plain_key_len \div CBC_BLOCK_SIZE + 1) * CBC_BLOCK_SIZE, out_byte)]

NotSealed == [ok |-> FALSE, tmpkey |-> <<>>, iv |-> <<>>, out |-> <<>>]

\* a wrapper that writes the enciphered key before the iv
ssl_wrap_key_iv_second(sealed) ==
    IF ~sealed.ok
    THEN [called |-> TRUE, ret |-> -1, wrapped_key |-> <<>>, wrapped_key_len |-> 0,
          sealed |-> sealed]
    ELSE LET p == int_bytes(Len(sealed.tmpkey)) \o int_bytes(Len(sealed.out))
                  \o sealed.tmpkey \o sealed.iv \o sealed.out
         IN  [called |-> TRUE, ret |-> 0, wrapped_key |-> p, wrapped_key_len |-> Len(p),
              sealed |-> sealed]

\* the buffer is [tmpkeylen][outlen][iv][tmpkey][out]
ssl_wrap_key(sealed) ==
    IF ~sealed.ok
    THEN [called |-> TRUE, ret |-> -1, wrapped_key |-> <<>>, wrapped_key_len |-> 0,
          sealed |-> sealed]
    ELSE LET tmpkeylen == Len(sealed.tmpkey)
             iv_len == IV_LEN
             outlen == Len(sealed.out)
             len == SIZEOF_INT + tmpkeylen + iv_len + SIZEOF_INT + outlen
             p == int_bytes(tmpkeylen) \o int_bytes(outlen) \o sealed.iv
                  \o sealed.tmpkey \o sealed.out
         IN  [called |-> TRUE, ret |-> 0, wrapped_key |-> p, wrapped_key_len |-> len,
              sealed |-> sealed]

\* the len bytes at offset off of the buffer, as far as the buffer holds them
bytes_at(buf, off, len) ==
    [i \in 1..len |-> IF off + i \in 1..Len(buf) THEN buf[off + i] ELSE 0]

\* size_t sums are taken modulo 2^64 and an int is widened with its sign; a
\* negative number below stands for 2^64 minus its magnitude, so that sums of
\* a few ints are sums and equality is equality (no sum of five 32-bit
\* numbers reaches 2^63)
unwrap_length_ok(wrapped_key_len, iv_len, tmpkeylen, keylen) ==
    wrapped_key_len = 2 * SIZEOF_INT + iv_len + tmpkeylen + keylen

\* open_ok is the answer of EVP_OpenInit, EVP_OpenUpdate and EVP_OpenFinal
ssl_unwrap_key(wrapped_key, open_ok) ==
    LET wrapped_key_len == Len(wrapped_key)
        iv_len == IV_LEN
        rejected == [called |-> TRUE, ret |-> -1, length_ok |-> FALSE,
                     decrypting |-> FALSE, tmpkeylen |-> 0, keylen |-> 0,
                     iv_buf |-> <<>>, tmpkey |-> <<>>, key |-> <<>>,
                     reads_outside |-> FALSE]
    IN  IF wrapped_key_len < 2 * SIZEOF_INT + iv_len THEN rejected
        ELSE LET tmpkeylen == bytes_int(SubSeq(wrapped_key, 1, SIZEOF_INT))
                 keylen == bytes_int(SubSeq(wrapped_key, SIZEOF_INT + 1, 2 * SIZEOF_INT))
                 iv_off == 2 * SIZEOF_INT
                 tmpkey_off == iv_off + iv_len
                 key_off == tmpkey_off + tmpkeylen
             IN  IF ~unwrap_length_ok(wrapped_key_len, iv_len, tmpkeylen, keylen)
                 THEN rejected
                 ELSE [called |-> TRUE, ret |-> IF open_ok THEN 0 ELSE -1,
                       length_ok |-> TRUE, decrypting |-> TRUE,
                       tmpkeylen |-> tmpkeylen, keylen |-> keylen,
                       iv_buf |-> bytes_at(wrapped_key, iv_off, iv_len),
                       tmpkey |-> bytes_at(wrapped_key, tmpkey_off, tmpkeylen),
                       key |-> bytes_at(wrapped_key, key_off, keylen),
                       reads_outside |->
                           \/ tmpkeylen < 0
                           \/ keylen < 0
                           \/ tmpkey_off + tmpkeylen > wrapped_key_len
                           \/ key_off < 0
                           \/ key_off + keylen > wrapped_key_len]

HeaderLens == {-17, -16, -1, 0, 1, 16, 17, 32, 48}

\* buffers too short for a header, and buffers with every pair of header ints
WrappedKeys ==
    {fill(n, 7) : n \in 0..(2 * SIZEOF_INT - 1)}
    \cup {int_bytes(t) \o int_bytes(k) \o fill(n, 7) :
             t \in HeaderLens, k \in HeaderLens, n \in 0..MaxPayload}

UnwrapArgs ==
    [fn : {"ssl_unwrap_key"}, wrapped_key : WrappedKeys, open_ok : BOOLEAN,
     sealed : {NotSealed}]

PkeySizes == {64, 128}
SealBytes == {0, 1, 255}

WrapArgs ==
    [fn : {"ssl_wrap_key"}, pkey_size : PkeySizes, plain_key_len : 0..MaxPlainKeyLen,
     seal_ok : BOOLEAN, tmpkey_byte : SealBytes, iv_byte : SealBytes,
     out_byte : SealBytes]

----------------------------------------------------------------------------
(* ssl_util.c: ssl_verify_signature_from_digest, ssl_verify_signature_from_buf *)

\* the bytes EVP_DigestFinal writes for a digest of 256 bits
HASH_LEN == 32

\* key types by EVP_PKEY_base_id
KeyTypes == {"EVP_PKEY_RSA", "EVP_PKEY_RSA_PSS", "EVP_PKEY_EC"}

\* what OpenSSL answers during one verification: whether the certificate
\* gives a public key, whether the context is allocated and initialised, the
\* key type, the return of ssl_set_pkey_ctx_rsa_pss or
\* EVP_PKEY_CTX_set_signature_md, and the return of EVP_PKEY_verify
OpensslAnswers ==
    [pubkey_ok : BOOLEAN, ctx_ok : BOOLEAN, init_ok : BOOLEAN, key_type : KeyTypes,
     md_set_ok : BOOLEAN, verify : {1, 0, -1, -2}]

\* ssl_hash_buf: NULL for an unknown digest, else the hash and its length
ssl_hash_buf(buf_len, digest_known) ==
    IF digest_known THEN [null |-> FALSE, calc_len |-> HASH_LEN]
    ELSE [null |-> TRUE, calc_len |-> 0]

ssl_verify_signature_from_digest(cert_len, sig_len, hash, hash_len, digest_known, ssl) ==
    IF hash.null THEN [ret |-> 0, aborted |-> TRUE]
    ELSE [aborted |-> FALSE, ret |->
        IF ~(0 < cert_len) \/ ~(0 < sig_len) \/ ~(0 < hash_len) THEN -1
        ELSE IF ~ssl.pubkey_ok THEN -2
        ELSE IF ~ssl.ctx_ok THEN -2
        ELSE IF ~ssl.init_ok THEN -2
        ELSE IF ~digest_known THEN -2
        ELSE IF ssl.key_type = "EVP_PKEY_RSA_PSS" /\ ~ssl.md_set_ok THEN -1
        ELSE IF ssl.key_type = "EVP_PKEY_RSA" /\ ~ssl.md_set_ok THEN -2
        ELSE IF ssl.key_type \notin {"EVP_PKEY_RSA_PSS", "EVP_PKEY_RSA"} THEN -1
        ELSE IF ssl.verify = 1 THEN 0
        ELSE IF ssl.verify = -1 THEN -2
        ELSE -1]

ssl_verify_signature_from_buf(cert_len, sig_len, buf_len, digest_known, ssl) ==
    LET hash == ssl_hash_buf(buf_len, digest_known)
        digest == ssl_verify_signature_from_digest(cert_len, sig_len, hash,
                                                   hash.calc_len, digest_known, ssl)
    IN  [called |-> TRUE, aborted |-> digest.aborted,
         ret |-> IF 0 > digest.ret THEN -2 ELSE digest.ret]

VerifyArgs ==
    [fn : {"ssl_verify_signature_from_buf"}, cert_len : {0, 1}, sig_len : {0, 1},
     buf_len : {0, 1, 2}, digest_known : BOOLEAN, ssl : OpensslAnswers]

----------------------------------------------------------------------------
(* The state machine *)

InitAfter(hostedmode, netifs) ==
        LET i == hotplug_init(hostedmode, netifs)
        IN  /\ hotplug_container_dev_mapping_list = <<>>
            /\ hotplug_container_netdev_mapping_list = <<>>
            /\ retries = TOKEN_RETRIES
            /\ cmld_wlan_idx = i.wlan_idx
            /\ cmld_eth_idx = i.eth_idx
            /\ token_timers = EmptyBag
            /\ netif_timers = EmptyBag
            /\ netif_phys = i.phys
            /\ devnodes = {}
            /\ wireless = {}
            /\ timer_tick = 0
            /\ ntoken_timers = 0
            /\ nnetif_timers = 0
            /\ last = done("hotplug_init", <<>>, 0, "")
            /\ BuiltByDefault
            /\ EngineIdle
            /\ LoopIdle
            /\ ObserversIdle
            /\ TokenUnlockIdle
            /\ SysfsPropsIdle
            /\ HandlerRegistered
            /\ SslIdle
            /\ ifi_names = seq_to_bag(i.returned)
            /\ NoRegistration

\* before the daemon runs: the static data as the program image holds it
DaemonNotStarted ==
    /\ hotplug_container_dev_mapping_list = <<>>
    /\ hotplug_container_netdev_mapping_list = <<>>
    /\ retries = TOKEN_RETRIES
    /\ cmld_wlan_idx = 0
    /\ cmld_eth_idx = 0
    /\ token_timers = EmptyBag
    /\ netif_timers = EmptyBag
    /\ netif_phys = {}
    /\ devnodes = {}
    /\ wireless = {}
    /\ timer_tick = 0
    /\ ntoken_timers = 0
    /\ nnetif_timers = 0
    /\ last = done("make", <<>>, 0, "")

Init == \E hostedmode \in BOOLEAN, netifs \in InitialNetifs : InitAfter(hostedmode, netifs)

RegisterUsb ==
    /\ ~daemon_aborted
    /\ \E c \in Containers, u \in Usbdevs :
           /\ hotplug_register_usbdevice(c, u)
           /\ reg_before' = registration("register_usbdevice", c, u)
    /\ UNCHANGED <<build_vars, engine_vars, loop_vars, observer_vars, pkcs12_vars, ifi_names, sysfs_vars, uev_vars, ssl_vars>>
UnregisterUsb ==
    /\ ~daemon_aborted
    /\ \E c \in Containers, u \in Usbdevs :
           /\ hotplug_unregister_usbdevice(c, u)
           /\ reg_before' = usb_unregistration(c, u)
    /\ UNCHANGED <<build_vars, engine_vars, loop_vars, observer_vars, pkcs12_vars, ifi_names, sysfs_vars, uev_vars, ssl_vars>>
RegisterToken ==
    /\ ~daemon_aborted
    /\ \E c \in Containers, u \in TokenUsbdevs :
           /\ hotplug_register_usbdevice(c, u)
           /\ reg_before' = registration("register_usbdevice", c, u)
    /\ UNCHANGED <<build_vars, engine_vars, loop_vars, observer_vars, pkcs12_vars, ifi_names, sysfs_vars, uev_vars, ssl_vars>>
UnregisterToken ==
    /\ ~daemon_aborted
    /\ \E c \in Containers, u \in TokenUsbdevs :
           /\ hotplug_unregister_usbdevice(c, u)
           /\ reg_before' = usb_unregistration(c, u)
    /\ UNCHANGED <<build_vars, engine_vars, loop_vars, observer_vars, pkcs12_vars, ifi_names, sysfs_vars, uev_vars, ssl_vars>>
RegisterNet ==
    /\ ~daemon_aborted
    /\ Len(hotplug_container_netdev_mapping_list) < MaxNetMappings
    /\ \E c \in Containers, p \in PnetCfgs :
           /\ hotplug_register_netdev(c, p)
           /\ reg_before' = registration("register_netdev", c, p)
    /\ UNCHANGED <<build_vars, engine_vars, loop_vars, observer_vars, pkcs12_vars, ifi_names, sysfs_vars, uev_vars, ssl_vars>>
RegisterNetdev ==
    /\ ~daemon_aborted
    /\ Len(hotplug_container_netdev_mapping_list) < MaxNetRegistrations
    /\ \E c \in Containers, p \in PnetCfgs :
           /\ hotplug_register_netdev(c, p)
           /\ reg_before' = registration("register_netdev", c, p)
    /\ UNCHANGED <<build_vars, engine_vars, loop_vars, observer_vars, pkcs12_vars, ifi_names, sysfs_vars, uev_vars, ssl_vars>>
UnregisterNet ==
    /\ ~daemon_aborted
    /\ \E c \in Containers, m \in Macs :
           /\ hotplug_unregister_netdev(c, m)
           /\ reg_before' = net_unregistration(c, m)
    /\ UNCHANGED <<build_vars, engine_vars, loop_vars, observer_vars, pkcs12_vars, ifi_names, sysfs_vars, uev_vars, ssl_vars>>
\* the serial file is read for the add of a USB device only
UsbUevent ==
    /\ uevent_delivered
    /\ \E e \in UsbUevents :
           \E f \in IF e.action = UEVENT_ACTION_ADD /\ is_usb_device(e)
           THEN SysfsSerials ELSE {NoSerialFile} :
           hotplug_handle_uevent_cb(e, f)
    /\ UNCHANGED <<build_vars, engine_vars, loop_vars, observer_vars, pkcs12_vars, history_vars, sysfs_vars, uev_vars, ssl_vars>>
TokenUevent ==
    /\ uevent_delivered
    /\ \E a \in {UEVENT_ACTION_ADD, UEVENT_ACTION_REMOVE} :
           hotplug_handle_uevent_cb(UsbDeviceUevent(a),
           [exists |-> TRUE, content |-> <<"0001", "\n">>])
    /\ UNCHANGED <<build_vars, engine_vars, loop_vars, observer_vars, pkcs12_vars, history_vars, sysfs_vars, uev_vars, ssl_vars>>
NetUevent ==
    /\ uevent_delivered
    /\ \E e \in NetUevents : hotplug_handle_uevent_cb(e, NoSerialFile)
    /\ UNCHANGED <<build_vars, engine_vars, loop_vars, observer_vars, pkcs12_vars, history_vars, sysfs_vars, uev_vars, ssl_vars>>
TokenTimer ==
    /\ ~daemon_aborted
    /\ \E t \in BagToSet(token_timers) : hotplug_token_timer_cb(t)
    /\ UNCHANGED <<build_vars, engine_vars, loop_vars, observer_vars, pkcs12_vars, history_vars, sysfs_vars, uev_vars, ssl_vars>>
NetifTimer ==
    /\ ~daemon_aborted
    /\ \E e \in BagToSet(netif_timers), in \in MoveInputs : hotplug_sysfs_netif_timer_cb(e, in)
    /\ ifi_names' = ifi_names (+) seq_to_bag(names_returned(last'.calls))
    /\ UNCHANGED reg_before
    /\ UNCHANGED <<build_vars, engine_vars, loop_vars, observer_vars, pkcs12_vars, sysfs_vars, uev_vars, ssl_vars>>
Devfs ==
    /\ \E p \in DevNodePaths : devfs_creates_node(p)
    /\ UNCHANGED <<build_vars, engine_vars, loop_vars, observer_vars, pkcs12_vars, history_vars, sysfs_vars, uev_vars, ssl_vars>>
Sysfs ==
    /\ \E n \in {<<"wlan0">>} : sysfs_publishes_wireless(n)
    /\ UNCHANGED <<build_vars, engine_vars, loop_vars, observer_vars, pkcs12_vars, history_vars, sysfs_vars, uev_vars, ssl_vars>>

\* The coordinator has three parts that share no state: the USB mapping list
\* with the uevents of USB devices; the token timers with retries and the
\* device nodes; the net mapping list with the net timers, the rename counters
\* and the list of physical interfaces. Each is checked by itself, the second
\* with token mappings only.
UsbNext ==
    \/ RegisterUsb
    \/ UnregisterUsb
    \/ UsbUevent

TokenNext ==
    \/ RegisterToken
    \/ UnregisterToken
    \/ TokenUevent
    \/ TokenTimer
    \/ Devfs

NetNext ==
    \/ RegisterNet
    \/ UnregisterNet
    \/ NetUevent
    \/ NetifTimer
    \/ Sysfs

\* the two registries by themselves, the net one with a longer list
RegNext ==
    \/ RegisterUsb
    \/ UnregisterUsb
    \/ RegisterNetdev
    \/ UnregisterNet

\* make reads the Makefile
MakeNext ==
    \/ MakeDefault
    \/ MakeAssign
    \/ MakeIfeq
    \/ MakeAppend

\* the lifecycle engine: control requests, hooks, the child, the freezer
ControlStart ==
    /\ compartment_start
    /\ transition_notifies
    /\ UNCHANGED <<hotplug_vars, build_vars, loop_vars, pkcs12_vars, history_vars, sysfs_vars, uev_vars, ssl_vars>>
ControlStop ==
    /\ compartment_stop
    /\ transition_notifies
    /\ UNCHANGED <<hotplug_vars, build_vars, loop_vars, pkcs12_vars, history_vars, sysfs_vars, uev_vars, ssl_vars>>
ControlFreeze ==
    /\ compartment_freeze
    /\ transition_notifies
    /\ UNCHANGED <<hotplug_vars, build_vars, loop_vars, pkcs12_vars, history_vars, sysfs_vars, uev_vars, ssl_vars>>
ControlUnfreeze ==
    /\ compartment_unfreeze
    /\ transition_notifies
    /\ UNCHANGED <<hotplug_vars, build_vars, loop_vars, pkcs12_vars, history_vars, sysfs_vars, uev_vars, ssl_vars>>
Reboot ==
    /\ compartment_reboot
    /\ transition_notifies
    /\ UNCHANGED <<hotplug_vars, build_vars, loop_vars, pkcs12_vars, history_vars, sysfs_vars, uev_vars, ssl_vars>>
ForwardHook ==
    /\ \E ok \in BOOLEAN : forward_hook(ok)
    /\ transition_notifies
    /\ UNCHANGED <<hotplug_vars, build_vars, loop_vars, pkcs12_vars, history_vars, sysfs_vars, uev_vars, ssl_vars>>
StopHook ==
    /\ stop_hook
    /\ transition_notifies
    /\ UNCHANGED <<hotplug_vars, build_vars, loop_vars, pkcs12_vars, history_vars, sysfs_vars, uev_vars, ssl_vars>>
CleanupHook ==
    /\ cleanup_hook
    /\ transition_notifies
    /\ UNCHANGED <<hotplug_vars, build_vars, loop_vars, pkcs12_vars, history_vars, sysfs_vars, uev_vars, ssl_vars>>
TeardownDone ==
    /\ \E reaped \in BOOLEAN : teardown_done(reaped)
    /\ transition_notifies
    /\ UNCHANGED <<hotplug_vars, build_vars, loop_vars, pkcs12_vars, history_vars, sysfs_vars, uev_vars, ssl_vars>>
QueuedStop ==
    /\ queued_stop_runs
    /\ transition_notifies
    /\ UNCHANGED <<hotplug_vars, build_vars, loop_vars, pkcs12_vars, history_vars, sysfs_vars, uev_vars, ssl_vars>>
ChildReady ==
    /\ child_signals_ready
    /\ transition_notifies
    /\ UNCHANGED <<hotplug_vars, build_vars, loop_vars, pkcs12_vars, history_vars, sysfs_vars, uev_vars, ssl_vars>>
ChildExit ==
    /\ child_exited
    /\ transition_notifies
    /\ UNCHANGED <<hotplug_vars, build_vars, loop_vars, pkcs12_vars, history_vars, sysfs_vars, uev_vars, ssl_vars>>
Freezer ==
    /\ freezer_frozen
    /\ transition_notifies
    /\ UNCHANGED <<hotplug_vars, build_vars, loop_vars, pkcs12_vars, history_vars, sysfs_vars, uev_vars, ssl_vars>>

Notify ==
    /\ observer_notified
    /\ UNCHANGED <<hotplug_vars, build_vars, engine_vars, loop_vars, pkcs12_vars, history_vars, sysfs_vars, uev_vars, ssl_vars>>

EngineNext ==
    \/ ControlStart
    \/ ControlStop
    \/ ControlFreeze
    \/ ControlUnfreeze
    \/ Reboot
    \/ ForwardHook
    \/ StopHook
    \/ CleanupHook
    \/ TeardownDone
    \/ QueuedStop
    \/ ChildReady
    \/ ChildExit
    \/ Freezer
    \/ Notify

\* the event loop with two compartments starting
LoopStart ==
    /\ \E c \in LoopCompartments : loop_start(c)
    /\ UNCHANGED <<hotplug_vars, build_vars, engine_vars, observer_vars, pkcs12_vars, history_vars, sysfs_vars, uev_vars, ssl_vars>>
LoopHookCall ==
    /\ \E c \in LoopCompartments : loop_hook_call(c)
    /\ UNCHANGED <<hotplug_vars, build_vars, engine_vars, observer_vars, pkcs12_vars, history_vars, sysfs_vars, uev_vars, ssl_vars>>
LoopHookReturn ==
    /\ \E c \in LoopCompartments, result \in {"done", "failed", "pending"} :
            loop_hook_return(c, result)
    /\ UNCHANGED <<hotplug_vars, build_vars, engine_vars, observer_vars, pkcs12_vars, history_vars, sysfs_vars, uev_vars, ssl_vars>>
LoopReplyFd ==
    /\ \E c \in LoopCompartments : loop_reply_fd(c)
    /\ UNCHANGED <<hotplug_vars, build_vars, engine_vars, observer_vars, pkcs12_vars, history_vars, sysfs_vars, uev_vars, ssl_vars>>

LoopNext == LoopStart \/ LoopHookCall \/ LoopHookReturn \/ LoopReplyFd

\* the token is unlocked: ssl_read_pkcs12_token is called once
TokenUnlock ==
    /\ p12_out.ret = P12_NOT_CALLED
    /\ p12_out' = ssl_read_pkcs12_token(token_file, passphrase)
    /\ UNCHANGED <<token_file, passphrase>>
    /\ UNCHANGED <<hotplug_vars, build_vars, engine_vars, loop_vars, observer_vars, history_vars, sysfs_vars, uev_vars, ssl_vars>>

\* the caller turns to another token file and passphrase
TokenPresented ==
    /\ p12_out.ret # P12_NOT_CALLED
    /\ \E file \in TokenFiles, pass \in Passphrases :
            /\ token_file' = file
            /\ passphrase' = pass
    /\ p12_out' = p12_result(P12_NOT_CALLED, FALSE, FALSE)
    /\ UNCHANGED <<hotplug_vars, build_vars, engine_vars, loop_vars, observer_vars, history_vars, sysfs_vars, uev_vars, ssl_vars>>

Pkcs12Next == TokenUnlock \/ TokenPresented

\* a usbdev is looked up in sysfs: hotplug_usbdev_set_sysfs_props is called once
SetSysfsProps ==
    /\ ~props_out.called
    /\ props_out' = hotplug_usbdev_set_sysfs_props(props_usbdev, sysfs_usb_devices)
    /\ UNCHANGED <<sysfs_usb_devices, props_usbdev>>
    /\ UNCHANGED <<hotplug_vars, build_vars, engine_vars, loop_vars, observer_vars, pkcs12_vars, history_vars, uev_vars, ssl_vars>>

SysfsPropsNext == SetSysfsProps

AesEcbEncrypt ==
    /\ ssl_args.fn = "ssl_aes_ecb_encrypt"
    /\ ~ssl_out.called
    /\ ssl_out' = ssl_aes_ecb_encrypt(ssl_args.inlen, ssl_args.outlen, ssl_args.keylen,
                                      ssl_args.pad, ssl_args.ctx_ok)
    /\ UNCHANGED ssl_args
    /\ UNCHANGED <<hotplug_vars, build_vars, engine_vars, loop_vars, observer_vars, pkcs12_vars, history_vars, sysfs_vars, uev_vars>>

AesNext == AesEcbEncrypt

SslFrame ==
    UNCHANGED <<hotplug_vars, build_vars, engine_vars, loop_vars, observer_vars, pkcs12_vars, history_vars, sysfs_vars, uev_vars>>

UnwrapKey ==
    /\ ssl_args.fn = "ssl_unwrap_key"
    /\ ~ssl_out.called
    /\ ssl_out' = ssl_unwrap_key(ssl_args.wrapped_key, ssl_args.open_ok)
    /\ UNCHANGED ssl_args
    /\ SslFrame

UnwrapNext == UnwrapKey

WrapKey ==
    /\ ssl_args.fn = "ssl_wrap_key"
    /\ ~ssl_out.called
    /\ ssl_out' = ssl_wrap_key(EVP_Seal(ssl_args.pkey_size, ssl_args.plain_key_len,
                                        ssl_args.seal_ok, ssl_args.tmpkey_byte,
                                        ssl_args.iv_byte, ssl_args.out_byte))
    /\ UNCHANGED ssl_args
    /\ SslFrame

\* the buffer ssl_wrap_key returned is given to ssl_unwrap_key
UnwrapWrapped ==
    /\ ssl_args.fn = "ssl_wrap_key"
    /\ ssl_out.called
    /\ ssl_out.ret = 0
    /\ \E open_ok \in BOOLEAN :
          /\ ssl_args' = [fn |-> "ssl_unwrap_key", wrapped_key |-> ssl_out.wrapped_key,
                          open_ok |-> open_ok, sealed |-> ssl_out.sealed]
          /\ ssl_out' = ssl_unwrap_key(ssl_out.wrapped_key, open_ok)
    /\ SslFrame

WrapNext == WrapKey \/ UnwrapWrapped

VerifySignatureFromBuf ==
    /\ ssl_args.fn = "ssl_verify_signature_from_buf"
    /\ ~ssl_out.called
    /\ ssl_out' = ssl_verify_signature_from_buf(ssl_args.cert_len, ssl_args.sig_len,
                                                ssl_args.buf_len, ssl_args.digest_known,
                                                ssl_args.ssl)
    /\ UNCHANGED ssl_args
    /\ SslFrame

VerifyNext == VerifySignatureFromBuf

\* the daemon shuts down, or a caller cleans up once more
HotplugCleanup ==
    /\ hotplug_cleanup
    /\ UNCHANGED <<build_vars, engine_vars, loop_vars, observer_vars, pkcs12_vars, history_vars, sysfs_vars, ssl_vars>>

\* the handler, with the USB registry and the uevents of USB devices
CleanupNext ==
    \/ HotplugCleanup
    \/ RegisterUsb
    \/ UnregisterUsb
    \/ UsbUevent

Next ==
    \/ UsbNext \/ TokenNext \/ NetNext \/ RegNext \/ MakeNext \/ EngineNext \/ LoopNext
    \/ Pkcs12Next \/ SysfsPropsNext \/ CleanupNext
    \/ AesNext \/ UnwrapNext \/ WrapNext \/ VerifyNext

Spec == Init /\ [][Next]_vars
UsbSpec == InitAfter(FALSE, <<>>) /\ [][UsbNext]_vars
TokenSpec == InitAfter(FALSE, <<>>) /\ [][TokenNext]_vars
NetSpec == Init /\ [][NetNext]_vars
RegSpec == Init /\ [][RegNext]_vars
\* the build, for every setting of the switches; the daemon is not running
MakeInit ==
    /\ DaemonNotStarted
    /\ EngineIdle
    /\ LoopIdle
    /\ ObserversIdle
    /\ TokenUnlockIdle
    /\ NoNamesReturned
    /\ NoRegistration
    /\ SysfsPropsIdle
    /\ HandlerNotRegistered
    /\ SslIdle
    /\ \E env \in MakeEnvs : MakeStarts(env)
MakeSpec == MakeInit /\ [][MakeNext]_vars
EngineInit == InitAfter(FALSE, <<>>)
LoopSpec == EngineInit /\ [][LoopNext]_vars
Pkcs12Init ==
    /\ DaemonNotStarted
    /\ BuiltByDefault
    /\ EngineIdle
    /\ LoopIdle
    /\ ObserversIdle
    /\ NoNamesReturned
    /\ NoRegistration
    /\ SysfsPropsIdle
    /\ HandlerNotRegistered
    /\ SslIdle
    /\ \E file \in TokenFiles, pass \in Passphrases : TokenUnlockWith(file, pass)
Pkcs12Spec == Pkcs12Init /\ [][Pkcs12Next]_vars
SysfsPropsInit ==
    /\ DaemonNotStarted
    /\ BuiltByDefault
    /\ EngineIdle
    /\ LoopIdle
    /\ ObserversIdle
    /\ TokenUnlockIdle
    /\ NoNamesReturned
    /\ NoRegistration
    /\ HandlerNotRegistered
    /\ SslIdle
    /\ \E entries \in SysfsUsbDirs, usbdev \in Usbdevs : SysfsPropsWith(entries, usbdev)
SysfsPropsSpec == SysfsPropsInit /\ [][SysfsPropsNext]_vars
\* nothing of the daemon runs; one call of a function of ssl_util.c
SslInit(args) ==
    /\ DaemonNotStarted
    /\ BuiltByDefault
    /\ EngineIdle
    /\ LoopIdle
    /\ ObserversIdle
    /\ TokenUnlockIdle
    /\ NoNamesReturned
    /\ NoRegistration
    /\ SysfsPropsIdle
    /\ HandlerNotRegistered
    /\ ssl_args = args
    /\ ssl_out = ssl_not_called
AesInit == \E args \in AesArgs : SslInit(args)
AesSpec == AesInit /\ [][AesNext]_vars
UnwrapInit == \E args \in UnwrapArgs : SslInit(args)
UnwrapSpec == UnwrapInit /\ [][UnwrapNext]_vars
WrapInit == \E args \in WrapArgs : SslInit(args)
WrapSpec == WrapInit /\ [][WrapNext]_vars
VerifyInit == \E args \in VerifyArgs : SslInit(args)
VerifySpec == VerifyInit /\ [][VerifyNext]_vars
\* before hotplug_init has run
BeforeInit ==
    /\ DaemonNotStarted
    /\ BuiltByDefault
    /\ EngineIdle
    /\ LoopIdle
    /\ ObserversIdle
    /\ TokenUnlockIdle
    /\ NoNamesReturned
    /\ NoRegistration
    /\ SysfsPropsIdle
    /\ HandlerNotRegistered
    /\ SslIdle
CleanupInit == BeforeInit \/ InitAfter(FALSE, <<>>)
CleanupSpec == CleanupInit /\ [][CleanupNext]_vars
EngineSpec == EngineInit /\ [][EngineNext]_vars

\* Every hook invocation runs to completion and the loop goes on to the next
\* one; the queued stop is taken up; observers are called back and return.
\* Nothing makes the child answer.
EngineSteps ==
    ForwardHook \/ StopHook \/ CleanupHook \/ TeardownDone \/ QueuedStop \/ Notify
EngineFairSpec == EngineSpec /\ WF_vars(EngineSteps)

\* the child of a booting compartment signals readiness or exits
ChildAnswers == ChildReady \/ (c_state = "BOOTING" /\ ChildExit)

\* The event loop delivers the expirations of the repeating timers that are in
\* it: as long as there is a timer, a timer callback runs again.
TokenFairSpec == TokenSpec /\ WF_vars(TokenTimer)
NetFairSpec == NetSpec /\ WF_vars(NetifTimer)

----------------------------------------------------------------------------
(* Properties of the USB part, checked under UsbSpec *)

\* the positions in calls of the calls made for the mapping at position idx
calls_for(calls, idx) == { k \in 1..Len(calls) : calls[k].idx = idx }

\* the uevent is one of a USB device (not of an interface of it)
IsUsbDeviceEvent(e) == e.subsystem = <<"usb">> /\ e.devtype = <<"usb_device">>

\* what the handler compares the mappings' serials with: the content of the
\* serial file without its final newline
SerialOf(f) ==
    IF f.content[Len(f.content)] = "\n"
    THEN SubSeq(f.content, 1, Len(f.content) - 1)
    ELSE f.content

\* C1: on a USB add uevent (subsystem usb, devtype usb_device) whose sysfs
\* serial is readable, every mapping whose (vendor id, product id, serial)
\* equals the event's has the event's (major, minor) recorded and exactly one
\* call made for it, a device allow of major:minor on its compartment; every
\* other mapping stays as it was and has no call made for it. (Whatever the
\* mapping list has become, and whichever uevent and serial file arrive.)
C1_UsbAddAllowsMatching ==
    \A e \in UsbUevents, f \in SysfsSerials :
        ( /\ e.action = "add"
          /\ IsUsbDeviceEvent(e)
          /\ f.exists
          /\ f.content # <<>> )
        => LET r == hotplug_handle_usb_device(hotplug_container_dev_mapping_list, e, f)
           IN  /\ Len(r.list) = Len(hotplug_container_dev_mapping_list)
               /\ \A i \in 1..Len(hotplug_container_dev_mapping_list) :
                    LET m == hotplug_container_dev_mapping_list[i]
                        made == calls_for(r.calls, i)
                    IN  IF /\ m.usbdev.id_vendor = e.usb_vendor
                           /\ m.usbdev.id_product = e.usb_product
                           /\ m.usbdev.i_serial = SerialOf(f)
                        THEN /\ r.list[i] = [m EXCEPT !.usbdev.major = e.major,
                                                      !.usbdev.minor = e.minor]
                             /\ Cardinality(made) = 1
                             /\ \A k \in made :
                                  /\ r.calls[k].fn = "device_allow"
                                  /\ r.calls[k].container = m.container
                                  /\ r.calls[k].major = e.major
                                  /\ r.calls[k].minor = e.minor
                        ELSE /\ r.list[i] = m
                             /\ made = {}

\* C1 happens: an add has bound one of two mappings to 189:3 and allowed it,
\* and has left the other one unbound
C1_Witness ==
    /\ last.op = "uevent"
    /\ last.log = "usb add"
    /\ Len(hotplug_container_dev_mapping_list) = 2
    /\ Len(last.calls) = 1
    /\ last.calls[1].fn = "device_allow"
    /\ hotplug_container_dev_mapping_list[last.calls[1].idx].usbdev.major = 189
    /\ hotplug_container_dev_mapping_list[last.calls[1].idx].usbdev.minor = 3
    /\ \E j \in 1..2 : hotplug_container_dev_mapping_list[j].usbdev.major = UNSET

\* C2: the device allow issued on USB add for a mapping carries the assign flag
\* of the usbdev the mapping was registered with (kept in mapping.usbdev.assign)
C2_AllowCarriesRegisteredAssign ==
    last.op = "uevent" =>
        \A k \in 1..Len(last.calls) :
            last.calls[k].fn = "device_allow" =>
                last.calls[k].assign =
                    hotplug_container_dev_mapping_list[last.calls[k].idx].usbdev.assign

\* C4: on a USB remove uevent, for each mapping whose recorded (major, minor)
\* equals the event's a device deny of major:minor is issued on its compartment,
\* and for a mapping of kind token token_detach is invoked as well
C4_UsbRemoveDenies ==
    [][\A e \in UsbUevents :
          ( /\ e.action = "remove"
            /\ IsUsbDeviceEvent(e)
            /\ last'.op = "uevent"
            /\ hotplug_handle_uevent_cb(e, NoSerialFile) )
          => \A i \in 1..Len(hotplug_container_dev_mapping_list) :
               LET m == hotplug_container_dev_mapping_list[i]
                   made == calls_for(last'.calls, i)
               IN  (m.usbdev.major = e.major /\ m.usbdev.minor = e.minor)
                   => /\ \E k \in made :
                           /\ last'.calls[k].fn = "device_deny"
                           /\ last'.calls[k].container = m.container
                           /\ last'.calls[k].major = e.major
                           /\ last'.calls[k].minor = e.minor
                      /\ m.usbdev.type = "TOKEN"
                           => \E k \in made :
                                /\ last'.calls[k].fn = "token_detach"
                                /\ last'.calls[k].container = m.container
      ]_vars

\* the calls of fn with major:minor made for the mapping at position idx
device_calls(calls, fn, idx, major, minor) ==
    { k \in calls_for(calls, idx) :
        calls[k].fn = fn /\ calls[k].major = major /\ calls[k].minor = minor }

\* C5, for the mappings of kind generic (C4 is about the deny of a token):
\* when the add that bound a mapping to (major, minor) has just run, it has
\* issued exactly one allow for the mapping, and the remove of (major, minor)
\* issues exactly one deny for it; when a remove has just issued a deny for a
\* mapping, a further remove of the same (major, minor) issues no second deny.
\* (The further remove leaves every variable as it is, so the claim is stated on
\* what the handler does in the state the first remove has left.)
C5_OneAllowOneDeny ==
    \A e \in UsbUevents :
        (e.action = "remove" /\ IsUsbDeviceEvent(e) /\ last.op = "uevent")
        => LET r == hotplug_handle_usb_device(hotplug_container_dev_mapping_list, e,
                                              NoSerialFile)
           IN  \A i \in 1..Len(hotplug_container_dev_mapping_list) :
                 hotplug_container_dev_mapping_list[i].usbdev.type = "GENERIC"
                 => /\ ( /\ last.log = "usb add"
                         /\ device_calls(last.calls, "device_allow", i,
                                         e.major, e.minor) # {} )
                       => /\ Cardinality(device_calls(last.calls, "device_allow", i,
                                                      e.major, e.minor)) = 1
                          /\ Cardinality(device_calls(r.calls, "device_deny", i,
                                                      e.major, e.minor)) = 1
                    /\ ( /\ last.log = "usb remove"
                         /\ device_calls(last.calls, "device_deny", i,
                                         e.major, e.minor) # {} )
                       => device_calls(r.calls, "device_deny", i, e.major, e.minor) = {}

----------------------------------------------------------------------------
(* Properties of the token timers, checked under TokenSpec *)

\* the uevents of TokenSpec: the token at 189:3, its serial file readable
TokenSerialFile == [exists |-> TRUE, content |-> <<"0001", "\n">>]

\* C3: every USB add uevent that matches mappings of kind token schedules one
\* timer for each of them, and a timer that finds the device node at one of its
\* first 10 firings invokes token_attach once, on the mapping's compartment, and
\* is then removed
C3_TokenAttachedWithinTenFirings ==
    [][/\ ( /\ last'.op = "uevent"
            /\ hotplug_handle_uevent_cb(UsbDeviceUevent("add"), TokenSerialFile) )
          => BagCardinality(token_timers')
                = BagCardinality(token_timers)
                    + Cardinality({ i \in 1..Len(hotplug_container_dev_mapping_list) :
                                      hotplug_container_dev_mapping_list[i].usbdev.type
                                          = "TOKEN" })
       /\ \A t \in BagToSet(token_timers) :
            ( /\ t.fired < 10
              /\ t.devname \in devnodes
              /\ last'.op = "token_timer"
              /\ hotplug_token_timer_cb(t) )
            => /\ Len(last'.calls) = 1
               /\ last'.calls[1].fn = "container_token_attach"
               /\ last'.calls[1].container = t.container
               /\ token_timers' = token_timers (-) SetToBag({t})
      ]_vars

\* Under TokenFairSpec every token timer is removed in the end, whether the
\* device node appears or not.
TokenTimersRemoved == <>[](token_timers = EmptyBag)

\* C11: each token timer has its own budget of 10 attempts: a timer in the
\* event loop that has checked for the device node fewer than 10 times checks
\* again at its next firing, whatever the other timers have done, and one that
\* has checked 10 times without finding the node is removed at its next firing
\* without a further check and without token_attach
C11_OwnBudgetOfTen ==
    \A t \in BagToSet(token_timers) :
        token_retries_exhausted(retries) <=> t.fired >= TOKEN_RETRIES

\* C12: after any sequence of hotplug_register_usbdevice and
\* hotplug_unregister_usbdevice calls, the mappings of kind token with the same
\* serial all belong to one compartment
C12_OneCompartmentPerTokenSerial ==
    \A i, j \in 1..Len(hotplug_container_dev_mapping_list) :
        ( /\ hotplug_container_dev_mapping_list[i].usbdev.type
                = HOTPLUG_USBDEV_TYPE_TOKEN
          /\ hotplug_container_dev_mapping_list[j].usbdev.type
                = HOTPLUG_USBDEV_TYPE_TOKEN
          /\ str_equal(hotplug_container_dev_mapping_list[i].usbdev.i_serial,
                       hotplug_container_dev_mapping_list[j].usbdev.i_serial) )
        => hotplug_container_dev_mapping_list[i].container
             = hotplug_container_dev_mapping_list[j].container

----------------------------------------------------------------------------
(* Properties of the net part, checked under NetSpec. They are stated on what
   hotplug_netdev_move does for an event whose timer is in the event loop and
   is let through by the timer callback, whatever the collaborators answer. *)

\* the timer callback goes on to the move: the event is not one of devtype
\* wlan whose interface sysfs does not show as wireless yet
MovesOnFiring(e) == ~(e.devtype = <<"wlan">> /\ e.interface \notin wireless)

\* the outcome of the move
MoveOf(e, in) ==
    hotplug_netdev_move(e, in, hotplug_container_netdev_mapping_list,
                        cmld_wlan_idx, cmld_eth_idx, netif_phys)

\* the positions of the net mappings with the interface's MAC
MacHits(in) ==
    { i \in 1..Len(hotplug_container_netdev_mapping_list) :
        hotplug_container_netdev_mapping_list[i].mac = in.mac }

\* the first of them
FirstHit(in) == CHOOSE i \in MacHits(in) : \A j \in MacHits(in) : i <= j

\* the target compartment: the one of the MAC's mapping, or c0
TargetOf(in) ==
    IF MacHits(in) # {}
    THEN hotplug_container_netdev_mapping_list[FirstHit(in)].container
    ELSE in.c0

\* the target compartment takes interfaces
TargetRuns(in) == in.state \in {"STARTING", "BOOTING", "RUNNING"}

\* the calls of fn among calls
calls_of(calls, fn) == { k \in 1..Len(calls) : calls[k].fn = fn }

\* C6: when the timer of a net add fires and the target compartment (the one
\* of the MAC's mapping, or c0) is not STARTING, BOOTING or RUNNING, the move is
\* refused: no kernel rename, both rename counters as they were, cmld's list of
\* interfaces and the mapping list as they were, no interface handed to the
\* network module, no uevent injected
C6_MoveRefusedUnlessRunning ==
    \A e \in BagToSet(netif_timers), in \in MoveInputs :
        ( /\ MovesOnFiring(e)
          /\ in.mac_ok
          /\ TargetOf(in) # NO_CONTAINER
          /\ ~TargetRuns(in) )
        => /\ MoveOf(e, in).calls = <<>>
           /\ MoveOf(e, in).wlan_idx = cmld_wlan_idx
           /\ MoveOf(e, in).eth_idx = cmld_eth_idx
           /\ MoveOf(e, in).phys = netif_phys
           /\ MoveOf(e, in).list = hotplug_container_netdev_mapping_list
           /\ MoveOf(e, in).ret = -1

\* C6 happens: a timer has fired for a MAC with a mapping, and the move was
\* refused for the state of the mapping's compartment
C6_Witness ==
    /\ last.op = "netif_timer"
    /\ last.log = "Target container is not running, skip moving"
    /\ last.calls = <<>>
    /\ last.ret = -1
    /\ hotplug_container_netdev_mapping_list # <<>>
    /\ netif_timers = EmptyBag

\* what the firing of the timer of e with the answers in did: the conditions
\* that cost least come first
Fired(e, in) ==
    /\ MovesOnFiring(e)
    /\ last'.op = "netif_timer"
    /\ hotplug_sysfs_netif_timer_cb(e, in)

RenamePrefix(e) == IF e.devtype = <<>> THEN <<"eth">> ELSE e.devtype

\* the counter the prefix selects: the wlan one for "wlan", the eth one for
\* every other prefix
RenameCounter(e) == IF RenamePrefix(e) = <<"wlan">> THEN cmld_wlan_idx ELSE cmld_eth_idx

RenamedEvent(e, in) == in.rename_ok /\ str_find(e.devpath, e.interface) # 0

\* C8: when the timer fires for an interface whose MAC has no mapping, the
\* mapping list is left as it is, and when c0 exists and is STARTING, BOOTING or
\* RUNNING the interface is handed to the network module once, for c0, with a
\* configuration without MAC filter that names the interface (by its new name
\* when the rename step has returned a renamed event); the move succeeds when
\* the network module does
C8_UnmatchedMacGoesToC0 ==
    \A e \in BagToSet(netif_timers), in \in MoveInputs :
        (MovesOnFiring(e) /\ in.mac_ok /\ MacHits(in) = {})
        => LET mv == MoveOf(e, in)
               adds == calls_of(mv.calls, "cmld_container_add_net_iface")
               renamed == calls_of(mv.calls, "network_rename_ifi")
           IN  /\ mv.list = hotplug_container_netdev_mapping_list
               /\ IF in.c0 # NO_CONTAINER /\ TargetRuns(in)
                  THEN /\ Cardinality(adds) = 1
                       /\ \A k \in adds :
                            /\ mv.calls[k].container = in.c0
                            /\ mv.calls[k].pnet_cfg.mac_filter = FALSE
                            /\ mv.calls[k].pnet_cfg.pnet_name =
                                  IF RenamedEvent(e, in)
                                  THEN mv.calls[CHOOSE r \in renamed : TRUE].newname
                                  ELSE e.interface
                       /\ mv.ret = (IF in.add_ok THEN 0 ELSE -1)
                  ELSE adds = {} /\ mv.ret = -1

\* C8 happens: a mapping is registered for c1, and the timer of an interface
\* with another MAC has moved it to c0 without MAC filter
C8_Witness ==
    /\ last.op = "netif_timer"
    /\ last.ret = 0
    /\ Len(hotplug_container_netdev_mapping_list) = 1
    /\ hotplug_container_netdev_mapping_list[1].container = "c1"
    /\ hotplug_container_netdev_mapping_list[1].pnet_cfg.pnet_name = <<"02:00:00:00:00:01">>
    /\ \E k \in calls_of(last.calls, "cmld_container_add_net_iface") :
         /\ last.calls[k].container = "c0"
         /\ last.calls[k].ok
         /\ ~last.calls[k].pnet_cfg.mac_filter

\* the MAC filter of the configuration the move uses: the mapping's, or none
\* for an interface without mapping
MacFilterOf(in) ==
    IF MacHits(in) # {}
    THEN hotplug_container_netdev_mapping_list[FirstHit(in)].pnet_cfg.mac_filter
    ELSE FALSE

\* the interface was moved: it has a MAC, the target exists and is STARTING,
\* BOOTING or RUNNING, and the network module took the interface
Moved(in) ==
    in.mac_ok /\ TargetOf(in) # NO_CONTAINER /\ TargetRuns(in) /\ in.add_ok

\* C9: when the timer fires, a uevent is injected if and only if the interface
\* was moved and the configuration used is not MAC-filtered; it is injected
\* once, into the target compartment, and is the add uevent with the new
\* interface name when the rename step has returned a renamed event
C9_InjectUnlessMacFilter ==
    \A e \in BagToSet(netif_timers), in \in MoveInputs :
        MovesOnFiring(e)
        => LET mv == MoveOf(e, in)
               injects == calls_of(mv.calls, "uevent_event_inject_into_netns")
           IN  /\ injects # {} <=> (Moved(in) /\ ~MacFilterOf(in))
               /\ Cardinality(injects) <= 1
               /\ \A k \in injects :
                    /\ mv.calls[k].container = TargetOf(in)
                    /\ mv.calls[k].event.action = "add"
                    /\ mv.calls[k].event.interface =
                          IF RenamedEvent(e, in)
                          THEN mv.calls[CHOOSE r \in calls_of(mv.calls,
                                            "network_rename_ifi") : TRUE].newname
                          ELSE e.interface

\* C9 happens: an interface was moved for a mapping with MAC filter, and no
\* uevent was injected
C9_Witness ==
    /\ last.op = "netif_timer"
    /\ last.ret = 0
    /\ last.log = "moved phys network interface"
    /\ hotplug_container_netdev_mapping_list # <<>>
    /\ hotplug_container_netdev_mapping_list[1].pnet_cfg.mac_filter
    /\ hotplug_container_netdev_mapping_list[1].pnet_cfg.pnet_name
          # <<"02:00:00:00:00:01">>
    /\ calls_of(last.calls, "uevent_event_inject_into_netns") = {}
    /\ calls_of(last.calls, "cmld_container_add_net_iface") # {}

\* C14: hotplug_rename_interface, called for the event of a timer in the event
\* loop, leaves the event as it is. When the kernel renames the interface
\* (and the devpath of the event holds the interface name) it
\* returns another event: its interface is the name the kernel was asked for,
\* its devpath is the given devpath with the old interface name replaced by
\* that name, and every other field is the given event's. Otherwise it
\* returns NULL. The move that called it then injects the
\* returned event, or the given event, field by field as it was before the
\* call, when there is none.
C14_RenameReturnsCopy ==
    \A e \in BagToSet(netif_timers), in \in MoveInputs :
        LET rn == hotplug_rename_interface(e, cmld_wlan_idx, cmld_eth_idx, netif_phys,
                                           in.rename_ok)
            asked == rn.calls[1].newname
            mv == MoveOf(e, in)
        IN  /\ RenamedEvent(e, in)
                 => /\ Len(rn.newevent) = 1
                    /\ rn.newevent[1] # e
                    /\ rn.newevent[1].interface = asked
                    /\ \E k \in 1..Len(e.devpath) :
                         /\ SubSeq(e.devpath, k, k + Len(e.interface) - 1) = e.interface
                         /\ rn.newevent[1].devpath
                               = SubSeq(e.devpath, 1, k - 1) \o asked
                                   \o SubSeq(e.devpath, k + Len(e.interface),
                                             Len(e.devpath))
                    /\ [rn.newevent[1] EXCEPT !.interface = e.interface,
                                              !.devpath = e.devpath] = e
            /\ ~RenamedEvent(e, in) => rn.newevent = <<>>
            /\ MovesOnFiring(e)
                 => \A k \in calls_of(mv.calls, "uevent_event_inject_into_netns") :
                       mv.calls[k].event
                          = IF RenamedEvent(e, in) THEN rn.newevent[1] ELSE e

\* C14 happens: the timer of eth7's add has fired, the kernel has renamed the
\* interface, and the event injected is the copy with the new name in its
\* interface and its devpath
C14_Witness ==
    /\ last.op = "netif_timer"
    /\ \E k \in calls_of(last.calls, "uevent_event_inject_into_netns") :
         /\ last.calls[k].event.interface = <<"cml", "eth", "0">>
         /\ last.calls[k].event.devpath = <<"/devices/pci0/net/", "cml", "eth", "0">>
         /\ last.calls[k].event.action = UEVENT_ACTION_ADD

----------------------------------------------------------------------------
(* Termination of the timers *)

\* C10, for the net timers, under NetFairSpec: every timer in the event loop is
\* removed from it in the end
C10_NetTimersRemoved ==
    \A e \in NetUevents : BagIn(e, netif_timers) ~> ~BagIn(e, netif_timers)

\* C13: after any sequence of hotplug_register_netdev and
\* hotplug_unregister_netdev calls, no two entries of the net mapping table
\* have the same MAC address
C13_MacInOneNetMapping ==
    \A i, j \in 1..Len(hotplug_container_netdev_mapping_list) :
        hotplug_container_netdev_mapping_list[i].mac
            = hotplug_container_netdev_mapping_list[j].mac
        => i = j

----------------------------------------------------------------------------
(* The registries, checked under RegSpec *)

\* list2 is list without its element at position i
WithoutOne(list, list2, i) ==
    /\ Len(list2) = Len(list) - 1
    /\ \A j \in 1..Len(list2) : list2[j] = IF j < i THEN list[j] ELSE list[j + 1]

\* C16: hotplug_unregister_usbdevice(container, usbdev) removes exactly one
\* mapping, one of the container with usbdev's vendor, product and serial, and
\* returns 0; when the container has no such mapping it returns -1 and the
\* table is as it was. hotplug_unregister_netdev(container, mac) does the same
\* with the mappings of the container with that MAC. A mapping of another
\* compartment is never removed.
C16_UnregisterRemovesOne ==
    [][/\ \A c \in Containers, u \in Usbdevs :
             ( /\ last'.op = "unregister_usbdevice"
               /\ hotplug_unregister_usbdevice(c, u) )
             => LET list == hotplug_container_dev_mapping_list
                    hits == { i \in 1..Len(list) :
                                /\ list[i].container = c
                                /\ list[i].usbdev.id_vendor = u.id_vendor
                                /\ list[i].usbdev.id_product = u.id_product
                                /\ list[i].usbdev.i_serial = u.i_serial }
                IN  /\ hotplug_container_netdev_mapping_list'
                          = hotplug_container_netdev_mapping_list
                    /\ IF hits = {}
                       THEN /\ last'.ret = -1
                            /\ hotplug_container_dev_mapping_list' = list
                       ELSE /\ last'.ret = 0
                            /\ \E i \in hits :
                                 WithoutOne(list, hotplug_container_dev_mapping_list', i)
       /\ \A c \in Containers, m \in Macs :
             ( /\ last'.op = "unregister_netdev"
               /\ hotplug_unregister_netdev(c, m) )
             => LET list == hotplug_container_netdev_mapping_list
                    hits == { i \in 1..Len(list) :
                                list[i].container = c /\ list[i].mac = m }
                IN  /\ hotplug_container_dev_mapping_list'
                          = hotplug_container_dev_mapping_list
                    /\ IF hits = {}
                       THEN /\ last'.ret = -1
                            /\ hotplug_container_netdev_mapping_list' = list
                       ELSE /\ last'.ret = 0
                            /\ \E i \in hits :
                                 WithoutOne(list, hotplug_container_netdev_mapping_list', i)
      ]_vars

\* C16 happens: with two net mappings registered, an unregistration has
\* removed one of two USB mappings and the one left is compartment c1's
C16_Witness ==
    /\ last.op = "unregister_usbdevice"
    /\ last.ret = 0
    /\ Len(hotplug_container_dev_mapping_list) = 1
    /\ hotplug_container_dev_mapping_list[1].container = "c1"
    /\ Len(hotplug_container_netdev_mapping_list) = 2

----------------------------------------------------------------------------
(* The module order, checked under MakeSpec *)

\* make has read the whole Makefile
MakeDone == make_pc > Len(Makefile)

\* the modules listed
Listed == { SRC_CMODULES[i] : i \in 1..Len(SRC_CMODULES) }

\* every occurrence of module a is before every occurrence of module b
Precedes(a, b) ==
    \A i, j \in 1..Len(SRC_CMODULES) :
        ( SRC_CMODULES[i] = a /\ SRC_CMODULES[j] = b ) => i < j

CgroupModules == {"c_cgroups.c", "c_cgroups_v2.c", "c_cgroups_dev.c", "c_cgroups_systemd.c"}

\* C17 as the specification states it: for every setting of the switches, in
\* the list that make has built the smartcard module and the user-namespace
\* module precede the volumes module, the volumes module precedes the network
\* module, and every cgroup module listed (at least one is) precedes the
\* capabilities module
C17_VolumesBeforeNetwork ==
    MakeDone
    => /\ {"c_smartcard.c", "c_user.c", "c_vol.c", "c_net.c", "c_cap.c"} \subseteq Listed
       /\ Listed \cap CgroupModules # {}
       /\ Precedes("c_smartcard.c", "c_vol.c")
       /\ Precedes("c_user.c", "c_vol.c")
       /\ Precedes("c_vol.c", "c_net.c")
       /\ \A g \in CgroupModules : Precedes(g, "c_cap.c")

\* C17, amended: the same, with the network module before the volumes module
C17_NetworkBeforeVolumes ==
    MakeDone
    => /\ {"c_smartcard.c", "c_user.c", "c_vol.c", "c_net.c", "c_cap.c"} \subseteq Listed
       /\ Listed \cap CgroupModules # {}
       /\ Precedes("c_smartcard.c", "c_vol.c")
       /\ Precedes("c_user.c", "c_vol.c")
       /\ Precedes("c_net.c", "c_vol.c")
       /\ \A g \in CgroupModules : Precedes(g, "c_cap.c")

\* C17 happens: a build with IDMAPPED, SYSTEMD and OCI set to y and CGROUP_V2
\* set to n has its list complete
C17_Witness ==
    /\ MakeDone
    /\ {"c_idmapped.c", "c_cgroups_systemd.c", "c_cgroups.c", "c_oci.c"} \subseteq Listed
    /\ Len(SRC_CMODULES) = 17

----------------------------------------------------------------------------
(* Failed starts *)

\* the modules whose cleanup hook has been called in this attempt
Cleaned == { cleanup_calls[i] : i \in DOMAIN cleanup_calls }

\* the teardown of a failed start has ended
FailedStartOver == attempt_failed /\ c_state \in {"STOPPED", "ZOMBIE"}

----------------------------------------------------------------------------
(* The compartment state machine *)

\* the valid transitions, as the state machine lists them
ListedTransitions ==
    { <<"STOPPED", "STARTING">>, <<"STARTING", "BOOTING">>, <<"BOOTING", "RUNNING">>,
      <<"RUNNING", "FREEZING">>, <<"FREEZING", "FROZEN">>, <<"FROZEN", "RUNNING">>,
      <<"STARTING", "SHUTTING_DOWN">>, <<"BOOTING", "SHUTTING_DOWN">>,
      <<"RUNNING", "SHUTTING_DOWN">>, <<"SHUTTING_DOWN", "STOPPED">>,
      <<"SHUTTING_DOWN", "ZOMBIE">>, <<"RUNNING", "REBOOTING">>,
      <<"REBOOTING", "STARTING">> }

\* C19: every change of the compartment's state, whatever control request,
\* child exit or hook result causes it, is one of the listed transitions.
C19_OnlyListedTransitions ==
    [][c_state' # c_state => <<c_state, c_state'>> \in ListedTransitions]_vars

\* a reboot whose teardown has ended: the compartment has been started, has
\* booted and run, and is about to start again
C19_Witness ==
    /\ c_state = "REBOOTING"
    /\ teardown = "reap"
    /\ child = "alive"
    /\ nstarts = 1

----------------------------------------------------------------------------
(* Stop requests during a start *)

\* teardown has ended
Stopped == c_state \in {"STOPPED", "ZOMBIE"}

----------------------------------------------------------------------------
(* Two compartments starting concurrently *)

\* the compartments with a hook that has started and not returned
HooksRunning == { c \in LoopCompartments : lc_hook[c] = "running" }

\* C21: with two compartments starting concurrently, the hooks called for
\* each compartment are a beginning of the canonical sequence (every phase in
\* order, in it every module in registry order), no hook of a compartment is
\* called while an earlier hook of the same compartment has not completed
\* (running, or parked for a reply), and at no time have hooks of both
\* compartments started and not returned.
C21_PhasesInOrderHooksAtomic ==
    /\ [](\A c \in LoopCompartments :
            /\ Len(lc_calls[c]) <= Len(CanonicalCalls)
            /\ lc_calls[c] = SubSeq(CanonicalCalls, 1, Len(lc_calls[c])))
    /\ [](Cardinality(HooksRunning) <= 1)
    /\ [][\A c \in LoopCompartments :
            lc_calls'[c] # lc_calls[c] => lc_hook[c] = "none" /\ HooksRunning = {}]_vars

\* the hooks interleave: c5 is parked in its first phase for a reply while a
\* hook of a later phase of c6 is running
C21_Witness ==
    /\ lc_hook["c5"] = "parked"
    /\ lc_phase["c5"] = 1
    /\ lc_hook["c6"] = "running"
    /\ lc_phase["c6"] > 1

----------------------------------------------------------------------------
(* Observers *)

\* C22: every observer notified for a transition reads the state that
\* transition made: not the state before it, and not the state of a later
\* transition; while notifications are outstanding they are all of one
\* transition, whose post-state is the compartment's state.
C22_ObserversSeePostState ==
    /\ observed.observer # "none" =>
            /\ observed.saw = observed.post
            /\ observed.saw # observed.pre
    /\ \A i \in DOMAIN notify_queue : notify_queue[i].post = c_state

\* the second observer has been notified of the transition to BOOTING, after
\* the first
C22_Witness ==
    /\ observed.observer = "B"
    /\ observed.post = "BOOTING"
    /\ observed.saw = "BOOTING"
    /\ notify_queue = <<>>

----------------------------------------------------------------------------
(* Token unlock *)

\* ssl_read_pkcs12_token has been called for the token file and passphrase
TokenUnlockCalled == p12_out.ret # P12_NOT_CALLED

\* C23: unlocking a PKCS#12 token has exactly three outcomes: 0 when the
\* structure was read (and then the key and certificate it holds are what the
\* caller gets, so a token with both read returns 0), -1 exactly when the file
\* holds a structure and the passphrase fails its MAC check, and -2 for every
\* other failure: no file, no structure, or bags that do not parse.
C23_ThreeOutcomes ==
    TokenUnlockCalled =>
        LET loaded == fopen_rb(token_file) /\ d2i_PKCS12_fp(token_file)
            mac_ok == PKCS12_verify_mac(token_file, passphrase) = 1
            parsed == PKCS12_parse(token_file, passphrase) = 1
        IN  /\ p12_out.ret \in {0, -1, -2}
            /\ p12_out.ret = -1 <=> loaded /\ ~mac_ok
            /\ p12_out.ret = 0 <=> loaded /\ mac_ok /\ parsed
            /\ p12_out.ret = 0 =>
                    p12_out.pkey = token_file.key /\ p12_out.cert = token_file.cert
            /\ p12_out.ret # 0 => ~p12_out.pkey /\ ~p12_out.cert

\* a structure whose MAC the passphrase fails and whose bags it would not
\* decrypt either: the outcome is the wrong password, not the parse error
C23_Witness ==
    /\ TokenUnlockCalled
    /\ token_file.kind = "p12"
    /\ token_file.mac = <<"1234">>
    /\ token_file.enc = <<"1234">>
    /\ passphrase = <<"0000">>
    /\ p12_out.ret = -1

----------------------------------------------------------------------------
(* Allow before attach *)

\* the token timers that a step has put into the event loop
NewTokenTimers ==
    { t \in BagToSet(token_timers') :
        t.fired = 0 /\ CopiesIn(t, token_timers') > CopiesIn(t, token_timers) }

\* the handler that has just run called fn for the container
Called(fn, container) ==
    \E i \in DOMAIN last'.calls :
        last'.calls[i].fn = fn /\ last'.calls[i].container = container

\* C24: a token timer enters the event loop only in a run of the uevent
\* handler that also issues the device-cgroup allow to the timer's
\* compartment, and token_attach is called only by a firing of a timer that
\* is in the loop, for that timer's compartment: no attach without an allow
\* issued before it.
C24_AllowBeforeAttach ==
    [][/\ \A t \in NewTokenTimers :
            last'.op = "uevent" /\ Called("device_allow", t.container)
       /\ \A c \in Containers :
            (retries' # retries /\ Called("container_token_attach", c)) =>
                \E t \in BagToSet(token_timers) :
                    /\ t.container = c
                    /\ file_exists(t.devname)
                    /\ CopiesIn(t, token_timers') < CopiesIn(t, token_timers)]_vars

\* token_attach has been called for the compartment of a token mapping that
\* is bound to the device node of the add event
C24_Witness ==
    /\ last.op = "token_timer"
    /\ \E i \in DOMAIN last.calls : last.calls[i].fn = "container_token_attach"
    /\ \E i \in DOMAIN hotplug_container_dev_mapping_list :
            /\ hotplug_container_dev_mapping_list[i].usbdev.major = 189
            /\ hotplug_container_dev_mapping_list[i].container = last.calls[1].container

----------------------------------------------------------------------------
(* One move attempt per net add event *)

\* a firing of a net timer has just run
NetifTimerFired == timer_tick' # timer_tick /\ last'.op = "netif_timer"

\* the interface of the event has devtype wlan and sysfs does not report it
\* as wireless
WlanNotWireless(e) == e.devtype = <<"wlan">> /\ e.interface \notin wireless

\* C25: a firing of a net timer either waits (devtype wlan, not yet wireless
\* in sysfs): then nothing is attempted and the timer stays; or attempts the
\* move, with whatever result: then exactly that timer leaves the event loop.
\* No other step takes a net timer out of the loop, so each add event leads
\* to at most one attempt, and after an attempt the loop holds fewer net
\* timers than add events have scheduled.
C25_OneMoveAttempt ==
    /\ []((last.op = "netif_timer" /\ last.log # "") =>
            BagCardinality(netif_timers) < nnetif_timers)
    /\ [](BagCardinality(netif_timers) <= nnetif_timers)
    /\ [][IF NetifTimerFired
          THEN \E e \in BagToSet(netif_timers) :
                  IF WlanNotWireless(e)
                  THEN /\ netif_timers' = netif_timers
                       /\ last'.log = "" /\ last'.calls = <<>>
                       /\ UNCHANGED <<cmld_wlan_idx, cmld_eth_idx,
                                      hotplug_container_netdev_mapping_list>>
                  ELSE /\ netif_timers' = event_remove_timer(netif_timers, e)
                       /\ last'.log # ""
          ELSE BagCardinality(netif_timers') >= BagCardinality(netif_timers)]_vars

\* the interface of devtype wlan was moved, at a firing after sysfs had
\* reported it as wireless, and its timer is gone
C25_Witness ==
    /\ last.op = "netif_timer"
    /\ last.ret = 0
    /\ cmld_wlan_idx = 1
    /\ <<"wlan0">> \in wireless
    /\ netif_timers = EmptyBag
    /\ nnetif_timers = 1

----------------------------------------------------------------------------
(* Which uevents schedule a move *)

\* the uevent is an add of subsystem net whose devpath does not contain
\* "virtual"
AddOfPhysicalNet(e) ==
    /\ e.action = UEVENT_ACTION_ADD
    /\ e.subsystem = <<"net">>
    /\ \A i \in DOMAIN e.devpath : e.devpath[i] # "virtual"

\* C26: the handler run for an add of subsystem net with a devpath without
\* "virtual" records the interface in the known-physical list and schedules
\* one net timer with the event; run for any other uevent (net remove, net
\* change, add of a virtual interface, another subsystem) it leaves the
\* known-physical list and the net timers as they are; in both cases the net
\* mapping table is unchanged.
C26_OnlyPhysicalNetAdd ==
    [][\A e \in NetUevents :
        hotplug_handle_uevent_cb(e, NoSerialFile) =>
            /\ UNCHANGED hotplug_container_netdev_mapping_list
            /\ IF AddOfPhysicalNet(e)
               THEN /\ netif_phys' = netif_phys \cup {e.interface}
                    /\ netif_timers' = event_add_timer(netif_timers, e)
                    /\ nnetif_timers' = nnetif_timers + 1
               ELSE UNCHANGED <<netif_phys, netif_timers, nnetif_timers>>]_vars

\* the add of eth7 has been handled: the interface is known as physical and
\* its timer is in the event loop
C26_Witness ==
    /\ last.op = "uevent"
    /\ <<"eth7">> \in netif_phys
    /\ BagCardinality(netif_timers) = 1
    /\ \E e \in BagToSet(netif_timers) : e.interface = <<"eth7">>

----------------------------------------------------------------------------
(* Registering a net mapping *)

\* the name of the configuration is a MAC address string
NamedByMac(pnet_cfg) == \E e \in MacStrings : e.str = pnet_cfg.pnet_name

\* C27: hotplug_register_netdev called with a configuration whose name is a
\* MAC address string returns 0 and appends exactly one mapping: the
\* container, the six bytes parsed from the name, the configuration; called
\* with any other name it returns -1 and leaves the net table unchanged.
C27_RegisterNetdevOnlyMac ==
    [][\A c \in Containers, p \in PnetCfgs :
        hotplug_register_netdev(c, p) =>
            IF NamedByMac(p)
            THEN /\ last'.ret = 0
                 /\ hotplug_container_netdev_mapping_list' =
                        Append(hotplug_container_netdev_mapping_list,
                               [container |-> c, pnet_cfg |-> p,
                                mac |-> (CHOOSE e \in MacStrings :
                                            e.str = p.pnet_name).mac])
            ELSE /\ last'.ret = -1
                 /\ UNCHANGED hotplug_container_netdev_mapping_list]_vars

\* a registration by interface name has been refused after one by MAC string
\* was accepted
C27_Witness ==
    /\ last.op = "register_netdev"
    /\ last.ret = -1
    /\ Len(hotplug_container_netdev_mapping_list) = 1
    /\ NamedByMac(hotplug_container_netdev_mapping_list[1].pnet_cfg)


----------------------------------------------------------------------------
(* C28: generated interface names are unique host-wide: over the renames of
   hotplug_init and every later rename, no two calls of
   hotplug_rename_ifi_new return the same name, also when an earlier rename
   failed and whatever devtype serves as infix.                            *)
C28_GeneratedNamesUnique ==
    \A name \in BagToSet(ifi_names) : CopiesIn(name, ifi_names) = 1

\* hotplug_init and later renames have returned names with both counters, and
\* one rename in between failed (a counter value was used up without a name)
C28_Witness ==
    /\ BagCardinality(ifi_names) >= 2
    /\ \E name, other \in BagToSet(ifi_names) : name[2] = "wlan" /\ other[2] # "wlan"
    /\ cmld_wlan_idx + cmld_eth_idx > BagCardinality(ifi_names)


----------------------------------------------------------------------------
(* C29: registering a mapping and then unregistering it with the same
   container and key restores the mapping table exactly, the same entries in
   the same order, also when the table already holds other mappings with the
   same key for the same or for another compartment; for the USB table and
   for the net table.                                                      *)

\* an unregistration has just undone the registration before it
JustUndone ==
    /\ reg_before.op = "undone"
    /\ last.op \in {"unregister_usbdevice", "unregister_netdev"}

C29_RegisterUnregisterRestores ==
    JustUndone =>
        /\ last.ret = 0
        /\ hotplug_container_dev_mapping_list = reg_before.usb
        /\ hotplug_container_netdev_mapping_list = reg_before.net

\* the USB table held a mapping of the same compartment with the same key
\* before the registration that was undone
C29_Witness ==
    /\ JustUndone
    /\ last.op = "unregister_usbdevice"
    /\ \E i \in DOMAIN reg_before.usb :
           /\ reg_before.usb[i].container = reg_before.container
           /\ usb_same_key(reg_before.usb[i].usbdev, reg_before.key)

\* the net table held a mapping of another compartment with the same MAC
\* address before the registration that was undone
C29_WitnessNet ==
    /\ JustUndone
    /\ last.op = "unregister_netdev"
    /\ \E i \in DOMAIN reg_before.net :
           /\ reg_before.net[i].container # reg_before.container
           /\ reg_before.net[i].mac = network_str_to_mac_addr(reg_before.key.pnet_name).mac


----------------------------------------------------------------------------
(* C30: the rename step of a move is all-or-nothing: when
   hotplug_rename_interface returns no renamed event, the kernel interface
   and the list of known physical interfaces still carry the original
   interface name, so that the move which follows under the original name
   refers to an interface that exists.                                     *)

\* network_rename_ifi renamed the interface oldname in the kernel
KernelRenamed(calls, oldname) ==
    \E i \in DOMAIN calls :
        /\ calls[i].fn = "network_rename_ifi"
        /\ calls[i].oldname = oldname
        /\ calls[i].ok

\* the firing of the timer of e went on to the rename, and
\* hotplug_rename_interface returned NULL
RenameReturnedNull(e, in) ==
    /\ hotplug_sysfs_netif_timer_cb(e, in)
    /\ \E i \in DOMAIN last'.calls : last'.calls[i].fn = "network_rename_ifi"
    /\ hotplug_rename_interface(e, cmld_wlan_idx, cmld_eth_idx, netif_phys,
                                in.rename_ok).newevent = <<>>

C30_RenameAllOrNothing ==
    [][ \A e \in BagToSet(netif_timers), in \in MoveInputs :
            RenameReturnedNull(e, in) =>
                /\ ~KernelRenamed(last'.calls, e.interface)
                /\ netif_phys' = netif_phys ]_vars


----------------------------------------------------------------------------
(* C31: a pending token timer never acts on a mapping that is gone: when the
   USB mapping was unregistered after the add that scheduled the timer, the
   firing of the timer does not call token_attach on the compartment. Stated
   on the table: a firing that calls token_attach for a compartment finds a
   token mapping of that compartment, bound to a device, in the table.     *)

\* the table holds a token mapping of the container that is bound to a device
TokenMappingOf(container) ==
    \E i \in DOMAIN hotplug_container_dev_mapping_list :
        /\ hotplug_container_dev_mapping_list[i].container = container
        /\ hotplug_container_dev_mapping_list[i].usbdev.type = HOTPLUG_USBDEV_TYPE_TOKEN
        /\ hotplug_container_dev_mapping_list[i].usbdev.major # UNSET

C31_NoAttachForGoneMapping ==
    last.op = "token_timer" =>
        \A k \in calls_of(last.calls, "container_token_attach") :
            TokenMappingOf(last.calls[k].container)


----------------------------------------------------------------------------
(* C32: a USB remove uevent never causes a deny or a token_detach for a
   mapping that is not bound to a device, that is whose (major, minor) is
   still the (-1, -1) of its registration, whatever major and minor the
   event carries.                                                          *)

\* the mapping at position idx of the table is bound to a device node
BoundMapping(idx) ==
    ~ /\ hotplug_container_dev_mapping_list[idx].usbdev.major = UNSET
      /\ hotplug_container_dev_mapping_list[idx].usbdev.minor = UNSET

----------------------------------------------------------------------------
(* C33: hotplug_usbdev_set_sysfs_props sets the usbdev's (major, minor) only
   from a sysfs device whose idVendor, idProduct and serial are equal to the
   usbdev's vendor id, product id and serial string, the serial compared as
   the USB add uevent path compares it (one trailing newline removed, then
   strcmp); when there is no such device it returns -1 and leaves
   (major, minor) as they are.                                             *)

\* the entry is the device of the usbdev, by the comparison of the add path
SameDevice(device, usbdev) ==
    /\ device.idVendor.exists /\ device.idVendor.hx = usbdev.id_vendor
    /\ device.idProduct.exists /\ device.idProduct.hx = usbdev.id_product
    /\ ~usb_serial_unreadable(device.serial)
    /\ str_equal(usb_strip_serial(device.serial.content), usbdev.i_serial)

SysfsHasDevice ==
    \E i \in DOMAIN sysfs_usb_devices : SameDevice(sysfs_usb_devices[i], props_usbdev)

C33_PropsOnlyFromSameDevice ==
    props_out.called =>
        /\ ( \/ props_out.usbdev.major # props_usbdev.major
             \/ props_out.usbdev.minor # props_usbdev.minor )
           => \E i \in DOMAIN sysfs_usb_devices :
                 /\ SameDevice(sysfs_usb_devices[i], props_usbdev)
                 /\ props_out.usbdev.major = sysfs_usb_devices[i].dev.major
                 /\ props_out.usbdev.minor = sysfs_usb_devices[i].dev.minor
        /\ ~SysfsHasDevice => props_out.ret = -1 /\ props_out.usbdev = props_usbdev


----------------------------------------------------------------------------
(* C34: hotplug_cleanup unregisters the handler of kernel uevents exactly
   once: a call before hotplug_init, or a second call after a first cleanup,
   is a no-op that does not remove or free the handler again.              *)
C34_CleanupOnce ==
    [][ (hotplug_cleanup /\ uevent_uev # "handler") =>
            /\ last'.calls = <<>>
            /\ UNCHANGED uev_vars ]_vars


----------------------------------------------------------------------------
(* C35: ssl_aes_ecb_encrypt never writes more than the caller's *outlen bytes
   to the output buffer, for every input length, key length and padding
   flag: it fails with -1 before encrypting, or the bytes written are at
   most *outlen.                                                           *)
C35_AesWritesWithinOutlen ==
    (ssl_args.fn = "ssl_aes_ecb_encrypt" /\ ssl_out.called) =>
        \/ ssl_out.ret = -1 /\ ~ssl_out.encrypting /\ ssl_out.written = 0
        \/ ssl_out.written <= ssl_args.outlen


----------------------------------------------------------------------------
(* C36: the length check of ssl_unwrap_key passes only if both header lengths
   are non-negative and 2 * sizeof(int) + iv_len + tmpkeylen + keylen is the
   length of the buffer; every other buffer is rejected with -1 before any
   decryption.                                                             *)
HeaderOf(buf) ==
    [tmpkeylen |-> bytes_int(SubSeq(buf, 1, SIZEOF_INT)),
     keylen |-> bytes_int(SubSeq(buf, SIZEOF_INT + 1, 2 * SIZEOF_INT))]

HeaderMatches(buf) ==
    /\ Len(buf) >= 2 * SIZEOF_INT
    /\ HeaderOf(buf).tmpkeylen >= 0
    /\ HeaderOf(buf).keylen >= 0
    /\ 2 * SIZEOF_INT + IV_LEN + HeaderOf(buf).tmpkeylen + HeaderOf(buf).keylen = Len(buf)

C36_UnwrapLengthCheck ==
    (ssl_args.fn = "ssl_unwrap_key" /\ ssl_out.called) =>
        /\ ssl_out.length_ok => HeaderMatches(ssl_args.wrapped_key)
        /\ ~HeaderMatches(ssl_args.wrapped_key) =>
               ssl_out.ret = -1 /\ ~ssl_out.decrypting

----------------------------------------------------------------------------
(* C37: the buffer ssl_wrap_key writes is the buffer ssl_unwrap_key reads:
   [enciphered-key length][ciphertext length][iv][enciphered key][ciphertext];
   it passes the length check of ssl_unwrap_key, which finds in it the iv,
   the enciphered key and the ciphertext that were written.                *)
C37_WrapUnwrapFraming ==
    (ssl_args.fn = "ssl_unwrap_key" /\ ssl_args.sealed.ok /\ ssl_out.called) =>
        /\ ssl_out.length_ok
        /\ ~ssl_out.reads_outside
        /\ ssl_out.iv_buf = ssl_args.sealed.iv
        /\ ssl_out.tmpkey = ssl_args.sealed.tmpkey
        /\ ssl_out.key = ssl_args.sealed.out
        /\ ssl_out.tmpkeylen = Len(ssl_args.sealed.tmpkey)
        /\ ssl_out.keylen = Len(ssl_args.sealed.out)

C37_Witness ==
    /\ ssl_args.fn = "ssl_unwrap_key"
    /\ ssl_args.sealed.ok
    /\ ssl_out.called
    /\ ssl_out.ret = 0
    /\ Len(ssl_out.key) = 2 * CBC_BLOCK_SIZE
    /\ Len(ssl_out.tmpkey) = 128
    /\ ssl_out.iv_buf[1] # ssl_out.tmpkey[1]
    /\ ssl_out.tmpkey[1] # ssl_out.key[1]


----------------------------------------------------------------------------
(* C38: ssl_verify_signature_from_buf returns the code that
   ssl_verify_signature_from_digest returns for the hash of the buffer: 0 for
   a valid signature, -1 for a signature that does not verify, -2 for any
   other error.                                                            *)
DigestOfBuffer ==
    ssl_verify_signature_from_digest(ssl_args.cert_len, ssl_args.sig_len,
                                     [null |-> FALSE, calc_len |-> HASH_LEN], HASH_LEN,
                                     ssl_args.digest_known, ssl_args.ssl)

C38_FromBufReturnsDigestCode ==
    (ssl_args.fn = "ssl_verify_signature_from_buf" /\ ssl_args.digest_known
     /\ ssl_out.called) =>
        /\ ~ssl_out.aborted
        /\ ssl_out.ret = DigestOfBuffer.ret

============================================================================
